---- MODULE Spec2Model ----
(***************************************************************************)
(* Confronto Folha x Lote Contabil (PDF x TXT).                            *)
(*                                                                         *)
(* Model of the aggregation and reconciliation functions of src/app.py     *)
(* and src/novosArquivos/app_resumos.py.                                   *)
(*                                                                         *)
(* Text is a sequence of one-character strings, so that normalisation,     *)
(* substring tests and title-casing are computed as the code computes      *)
(* them.  Money is an integer number of millionths of a currency unit      *)
(* (358.35 is 358350000, one cent is 10000); sums and differences are the  *)
(* exact decimal ones.  A pandas DataFrame is a sequence of records, a     *)
(* Python dict a sequence of <<key, value>> pairs in insertion order.      *)
(***************************************************************************)
EXTENDS Integers, Sequences, FiniteSets, TLC

----------------------------------------------------------------------------
(* Generic sequence helpers                                                *)

RECURSIVE SeqSum(_)
SeqSum(s) ==
    IF s = <<>> THEN 0 ELSE Head(s) + SeqSum(Tail(s))

\* s with F applied to every element
MapRows(s, F(_)) == [i \in DOMAIN s |-> F(s[i])]

Range(s) == {s[i] : i \in DOMAIN s}

Abs(x) == IF x < 0 THEN -x ELSE x

\* first occurrences of the elements of s, in order (pandas unique / drop_duplicates)
RECURSIVE Unique(_)
Unique(s) ==
    IF s = <<>> THEN <<>>
    ELSE LET front == Unique(SubSeq(s, 1, Len(s) - 1))
             last  == s[Len(s)]
         IN  IF last \in Range(front) THEN front ELSE Append(front, last)

\* the elements of a finite set as a sequence sorted by Less (a strict total order)
SortSet(S, Less(_, _)) ==
    [i \in 1..Cardinality(S) |->
        CHOOSE x \in S : Cardinality({y \in S : Less(y, x)}) = i - 1]

----------------------------------------------------------------------------
(* Text                                                                    *)

UpperChars == <<"A","B","C","D","E","F","G","H","I","J","K","L","M",
                "N","O","P","Q","R","S","T","U","V","W","X","Y","Z",
                "Ç","Á","À","Ä","Â","Ã","É","Ê","Í","Î","Ó","Ô","Ö","Õ","Ú","Ü">>
LowerChars == <<"a","b","c","d","e","f","g","h","i","j","k","l","m",
                "n","o","p","q","r","s","t","u","v","w","x","y","z",
                "ç","á","à","ä","â","ã","é","ê","í","î","ó","ô","ö","õ","ú","ü">>

IndexOf(seq, c) == CHOOSE i \in DOMAIN seq : seq[i] = c

\* str.lower() and str.upper() as tables over the cased characters
LowerTable == [c \in Range(UpperChars) |-> LowerChars[IndexOf(UpperChars, c)]]
UpperTable == [c \in Range(LowerChars) |-> UpperChars[IndexOf(LowerChars, c)]]

\* str.lower() on one character
LowerChar(c) == IF c \in DOMAIN LowerTable THEN LowerTable[c] ELSE c

\* str.upper() on one character
UpperChar(c) == IF c \in DOMAIN UpperTable THEN UpperTable[c] ELSE c

\* characters with a case (the ordinal indicator is a cased letter for Python)
CasedChars == Range(UpperChars) \cup Range(LowerChars) \cup {"º"}
IsCased(c) == c \in CasedChars

IsDigit(c) == c \in {"0","1","2","3","4","5","6","7","8","9"}

IsSpace(c) == c = " "

\* the replacement table of normalize_text
SubsFrom == <<"ç","Ç","á","à","ä","â","ã","Á","À","Ä","Â","Ã","é","ê","É","Ê",
              "í","î","Í","Î","ó","ô","ö","õ","Ó","Ô","Ö","Õ","ú","ü","Ú","Ü">>
SubsTo   == <<"c","C","a","a","a","a","a","A","A","A","A","A","e","e","E","E",
              "i","i","I","I","o","o","o","o","O","O","O","O","u","u","U","U">>

SubsTable == [c \in Range(SubsFrom) |-> SubsTo[IndexOf(SubsFrom, c)]]

SubsChar(c) == IF c \in DOMAIN SubsTable THEN SubsTable[c] ELSE c

RECURSIVE LStrip(_)
LStrip(s) ==
    IF s # <<>> /\ IsSpace(Head(s)) THEN LStrip(Tail(s)) ELSE s

RECURSIVE RStrip(_)
RStrip(s) ==
    IF s # <<>> /\ IsSpace(s[Len(s)]) THEN RStrip(SubSeq(s, 1, Len(s) - 1)) ELSE s

\* str.strip()
Strip(s) == RStrip(LStrip(s))

\* needle in hay
Contains(hay, needle) ==
    \E i \in 0..(Len(hay) - Len(needle)) : SubSeq(hay, i + 1, i + Len(needle)) = needle

normalize_text(s) ==
    Strip([i \in DOMAIN s |-> LowerChar(SubsChar(s[i]))])

\* str.title(): a cased character is upper-cased after an uncased one and
\* lower-cased after a cased one
Title(s) ==
    [i \in DOMAIN s |->
        IF i > 1 /\ IsCased(s[i - 1]) THEN LowerChar(s[i]) ELSE UpperChar(s[i])]

\* str.split(sep) for a one-character separator
RECURSIVE SplitOn(_, _)
SplitOn(s, sep) ==
    IF \A i \in DOMAIN s : s[i] # sep THEN <<s>>
    ELSE LET k == CHOOSE i \in DOMAIN s :
                     s[i] = sep /\ \A j \in 1..(i - 1) : s[j] # sep
         IN  <<SubSeq(s, 1, k - 1)>> \o SplitOn(SubSeq(s, k + 1, Len(s)), sep)

\* the characters of the model in code-point order
CharOrder == <<" ","+",",","-",".","/","0","1","2","3","4","5","6","7","8","9",
               "A","B","C","D","E","F","G","H","I","J","K","L","M",
               "N","O","P","Q","R","S","T","U","V","W","X","Y","Z",
               "a","b","c","d","e","f","g","h","i","j","k","l","m",
               "n","o","p","q","r","s","t","u","v","w","x","y","z",
               "º","À","Á","Â","Ã","Ä","Ç","É","Ê","Í","Î","Ó","Ô","Õ","Ö","Ú","Ü",
               "à","á","â","ã","ä","ç","é","ê","í","î","ó","ô","õ","ö","ú","ü">>

CharRank == [c \in Range(CharOrder) |-> IndexOf(CharOrder, c)]

\* a < b for Python strings
RECURSIVE LessText(_, _)
LessText(a, b) ==
    IF b = <<>> THEN FALSE
    ELSE IF a = <<>> THEN TRUE
    ELSE IF Head(a) = Head(b) THEN LessText(Tail(a), Tail(b))
    ELSE CharRank[Head(a)] < CharRank[Head(b)]

----------------------------------------------------------------------------
(* Text literals of the source                                             *)

k_folha == <<"f","o","l","h","a">>
k_complementar == <<"c","o","m","p","l","e","m","e","n","t","a","r">>
k_rescisao == <<"r","e","s","c","i","s","a","o">>
k_ferias == <<"f","e","r","i","a","s">>
k_adiantamento == <<"a","d","i","a","n","t","a","m","e","n","t","o">>
k_fgts == <<"f","g","t","s">>
k_inss == <<"i","n","s","s">>
k_irrf == <<"i","r","r","f">>
k_rescisao_de_contrato == <<"r","e","s","c","i","s","a","o"," ","d","e"," ","c","o","n","t","r","a","t","o">>
k_rescisao_contrato == <<"r","e","s","c","i","s","a","o"," ","c","o","n","t","r","a","t","o">>
k_folha_de_pagamento == <<"f","o","l","h","a"," ","d","e"," ","p","a","g","a","m","e","n","t","o">>
k_folha_pagamento == <<"f","o","l","h","a"," ","p","a","g","a","m","e","n","t","o">>
k_desconto == <<"d","e","s","c","o","n","t","o">>
k_descontos == <<"d","e","s","c","o","n","t","o","s">>
Folha == <<"F","o","l","h","a">>
Rescisao == <<"R","e","s","c","i","s","ã","o">>
Ferias == <<"F","é","r","i","a","s">>
Adiantamento == <<"A","d","i","a","n","t","a","m","e","n","t","o">>
SemCategoria == <<"S","e","m"," ","C","a","t","e","g","o","r","i","a">>
Impostos == <<"I","m","p","o","s","t","o","s">>
SemMapeamento == <<"S","e","m"," ","M","a","p","e","a","m","e","n","t","o">>
Adicional == <<"A","d","i","c","i","o","n","a","l">>
Desconto == <<"D","e","s","c","o","n","t","o">>

----------------------------------------------------------------------------
(* Utils                                                                   *)

\* dict.get(key, default) on a sequence of <<key, value>> pairs
DictHas(d, key) == \E i \in DOMAIN d : d[i][1] = key

DictGet(d, key, default) ==
    IF DictHas(d, key) THEN d[CHOOSE i \in DOMAIN d : d[i][1] = key][2] ELSE default

\* d[key] = value: a present key keeps its place, a new key goes last
DictSet(d, key, value) ==
    IF DictHas(d, key)
    THEN [i \in DOMAIN d |-> IF d[i][1] = key THEN <<key, value>> ELSE d[i]]
    ELSE Append(d, <<key, value>>)

\* the labels canonical_categoria takes for Folha and for Rescisao
folha_synonyms ==
    { k_folha, <<"f","o","l","h","a"," ","c","o","m","p","l","e","m","e","n","t","a","r">>,
      <<"f","o","l","h","a"," ","c","o","m","p">>, <<"f","o","l","h","a","c","o","m","p","l","e","m","e","n","t","a","r">> }

rescisao_synonyms ==
    { k_rescisao, <<"r","e","s","c","i","s","a","o"," ","c","o","m","p">>,
      <<"r","e","s","c","i","s","a","o"," ","c","o","m","p","l","e","m","e","n","t","a","r">>,
      <<"r","e","s","c","i","s","a","o"," ","c","o","m","p","l">>,
      <<"r","e","s","c","i","s","a","o"," ","c","o","m","p",".">> }

\* the alias dictionary of canonical_categoria
aliases ==
    << <<<<"f","o","l","h","a"," ","s","o","c","i","o","s">>, <<"F","o","l","h","a"," ","S","ó","c","i","o","s">>>>,
       <<<<"f","o","l","h","a"," ","a","u","t","o","n","o","m","o","s">>, <<"F","o","l","h","a"," ","A","u","t","o","n","o","m","o","s">>>>,
       <<<<"1","3"," ","p","r","i","m","e","i","r","a"," ","p","a","r","c","e","l","a">>,
         <<"1","3","º"," ","P","r","i","m","e","i","r","a"," ","P","a","r","c","e","l","a">>>>,
       <<<<"1","3"," ","s","e","g","u","n","d","a"," ","p","a","r","c","e","l","a">>,
         <<"1","3","º"," ","S","e","g","u","n","d","a"," ","P","a","r","c","e","l","a">>>>,
       <<<<"1","3"," ","a","d","i","a","n","t","a","m","e","n","t","o">>,
         <<"1","3","º"," ","A","d","i","a","n","t","a","m","e","n","t","o">>>>,
       <<k_ferias, Ferias>>,
       <<k_adiantamento, Adiantamento>>,
       <<<<"p","r","o"," ","l","a","b","o","r","e">>, <<"P","r","ó","-","L","a","b","o","r","e">>>>,
       <<<<"d","e","c","i","m","o"," ","t","e","r","c","e","i","r","o">>, <<"1","3","º">>>>,
       <<<<"1","3">>, <<"1","3","º">>>> >>

\* canonical_categoria with the Rescisao rule tried before the Folha rule
canonical_categoria_rescisao_first(raw) ==
    LET base  == normalize_text(raw)
        parts == SelectSeq(MapRows(SplitOn(raw, "/"), Strip), LAMBDA p : p # <<>>)
        title == Title(Strip(raw))
    IN  IF \/ base \in rescisao_synonyms
           \/ Contains(base, k_rescisao) /\ Contains(base, k_complementar)
        THEN Rescisao
        ELSE IF \/ base \in folha_synonyms
                \/ Contains(base, k_folha) /\ Contains(base, k_complementar)
        THEN Folha
        ELSE IF DictHas(aliases, base) THEN DictGet(aliases, base, base)
        ELSE IF Contains(raw, <<"/">>)
                /\ \E i \in DOMAIN parts : Contains(normalize_text(parts[i]), k_rescisao)
        THEN Rescisao
        ELSE IF Contains(raw, <<"/">>)
                /\ \E i \in DOMAIN parts : Contains(normalize_text(parts[i]), k_folha)
        THEN Folha
        ELSE IF title # <<>> THEN title ELSE SemCategoria

canonical_categoria(raw) ==
    LET base  == normalize_text(raw)
        parts == SelectSeq(MapRows(SplitOn(raw, "/"), Strip), LAMBDA p : p # <<>>)
        title == Title(Strip(raw))
    IN  IF \/ base \in folha_synonyms
           \/ Contains(base, k_folha) /\ Contains(base, k_complementar)
        THEN Folha
        ELSE IF \/ base \in rescisao_synonyms
                \/ Contains(base, k_rescisao) /\ Contains(base, k_complementar)
        THEN Rescisao
        ELSE IF DictHas(aliases, base) THEN DictGet(aliases, base, base)
        ELSE IF Contains(raw, <<"/">>)
                /\ \E i \in DOMAIN parts : Contains(normalize_text(parts[i]), k_folha)
        THEN Folha
        ELSE IF Contains(raw, <<"/">>)
                /\ \E i \in DOMAIN parts : Contains(normalize_text(parts[i]), k_rescisao)
        THEN Rescisao
        ELSE IF title # <<>> THEN title ELSE SemCategoria

\* truth value of a Python string used as a condition
Truthy(s) == s # <<>>

classify_txt_by_description(descricao) ==
    LET desc_norm == normalize_text(descricao)
    IN  IF \E palavra \in {k_fgts} : Contains(desc_norm, palavra)
        THEN Impostos
        ELSE IF \/ Contains(desc_norm, k_rescisao_de_contrato)
                \/ Truthy(k_rescisao_contrato)
                \/ Contains(desc_norm, k_rescisao)
        THEN Rescisao
        ELSE IF Contains(desc_norm, k_ferias) THEN Ferias
        ELSE IF Contains(desc_norm, k_adiantamento) THEN Adiantamento
        ELSE IF \/ Contains(desc_norm, k_folha_de_pagamento)
                \/ Contains(desc_norm, k_folha_pagamento)
        THEN Folha
        ELSE IF Contains(desc_norm, k_folha) THEN Folha
        ELSE SemMapeamento

----------------------------------------------------------------------------
(* Values of DataFrame cells                                               *)

\* a missing cell (None / NaN); no text has a character of several letters
NaN == <<"NaN">>

\* Python's None where a text is expected
None == <<"None">>

\* no call made, nothing returned
NoCall == [fn |-> "none"]

\* str(x) of a cell
StrOf(x) == IF x = NaN THEN <<"N","o","n","e">> ELSE x

\* re.sub(r"[^\d]", "", s)
DigitsOf(s) == SelectSeq(s, IsDigit)

\* s.replace(old, "") for a two-character old
RECURSIVE RemoveAll(_, _)
RemoveAll(s, old) ==
    IF Len(s) < Len(old) THEN s
    ELSE IF SubSeq(s, 1, Len(old)) = old
         THEN RemoveAll(SubSeq(s, Len(old) + 1, Len(s)), old)
         ELSE <<Head(s)>> \o RemoveAll(Tail(s), old)

\* the number written by a text of digits
RECURSIVE NumOf(_)
NumOf(s) ==
    IF s = <<>> THEN 0
    ELSE 10 * NumOf(SubSeq(s, 1, Len(s) - 1))
         + (CharRank[s[Len(s)]] - CharRank["0"])

\* rows sorted by Less, rows that Less does not order keep their order
SortRows(rows, Less(_, _)) ==
    LET before(i) ==
            {j \in DOMAIN rows :
                \/ Less(rows[j], rows[i])
                \/ ~Less(rows[i], rows[j]) /\ j < i}
    IN  [k \in DOMAIN rows |->
            rows[CHOOSE i \in DOMAIN rows : Cardinality(before(i)) = k - 1]]

\* it.get(field, default) on a record
ItemGet(it, field, default) ==
    IF field \in DOMAIN it THEN it[field] ELSE default

----------------------------------------------------------------------------
(* Mapeamento                                                              *)

\* the items of one category as load_mapping keeps them
RECURSIVE norm_items(_)
norm_items(items) ==
    IF items = <<>> THEN <<>>
    ELSE LET it == Head(items)
             ev == DigitsOf(StrOf(ItemGet(it, "evento", <<>>)))
             la == RemoveAll(Strip(StrOf(ItemGet(it, "codigo_lancamento", <<>>))), <<".", "0">>)
         IN  (IF ev # <<>> \/ la # <<>>
              THEN << [evento |-> ev, codigo_lancamento |-> la] >>
              ELSE <<>>) \o norm_items(Tail(items))

RECURSIVE norm_mapping(_, _)
norm_mapping(data, norm) ==
    IF data = <<>> THEN norm
    ELSE norm_mapping(Tail(data),
                      DictSet(norm, canonical_categoria(Head(data)[1]),
                              norm_items(Head(data)[2])))

\* the configuration resource is missing, unreadable, or a JSON object
load_mapping(resource) ==
    IF resource.kind = "missing" THEN <<>>
    ELSE IF resource.kind = "invalid" THEN <<>>
    ELSE norm_mapping(resource.data, <<>>)

\* all items of the mapping in iteration order, each with its category
RECURSIVE mapping_items(_)
mapping_items(mapping) ==
    IF mapping = <<>> THEN <<>>
    ELSE [i \in DOMAIN Head(mapping)[2] |->
              [cat |-> Head(mapping)[1], it |-> Head(mapping)[2][i]]]
         \o mapping_items(Tail(mapping))

RECURSIVE la2cat_of(_, _)
la2cat_of(its, la2cat) ==
    IF its = <<>> THEN la2cat
    ELSE LET la == Strip(StrOf(ItemGet(Head(its).it, "codigo_lancamento", <<>>)))
         IN  la2cat_of(Tail(its),
                       IF la # <<>> THEN DictSet(la2cat, la, Head(its).cat) ELSE la2cat)

mapping_la_to_categoria(mapping) == la2cat_of(mapping_items(mapping), <<>>)

mapping_event_to_la(mapping) ==
    LET row(x) == [Categoria |-> x.cat,
                   EventoCod |-> DigitsOf(StrOf(ItemGet(x.it, "evento", <<>>))),
                   CodigoLA  |-> StrOf(ItemGet(x.it, "codigo_lancamento", <<>>))]
        rows   == MapRows(mapping_items(mapping), row)
    IN  Unique(SelectSeq(rows, LAMBDA r : r.EventoCod # <<>> /\ r.CodigoLA # <<>>))

----------------------------------------------------------------------------
(* Aggregation                                                             *)

\* the status threshold: one cent
Tolerance == 10000

\* adicionais.merge(descontos, on="Categoria", how="outer").fillna(0.0) with
\* its Liquido column; an outer merge orders the rows by key
Liquidos(adicionais, descontos) ==
    LET cats    == {r.Categoria : r \in Range(adicionais) \cup Range(descontos)}
        valueIn(df, cat, col) ==
            IF \E r \in Range(df) : r.Categoria = cat
            THEN (CHOOSE r \in Range(df) : r.Categoria = cat)[col]
            ELSE 0
        row(cat) == [Categoria  |-> cat,
                     Adicionais |-> valueIn(adicionais, cat, "Adicionais"),
                     Descontos  |-> valueIn(descontos, cat, "Descontos"),
                     Liquido    |-> valueIn(adicionais, cat, "Adicionais")
                                    + valueIn(descontos, cat, "Descontos")]
    IN  MapRows(SortSet(cats, LessText), row)

sum_pdf_by_categoria(df_pdf) ==
    IF df_pdf = <<>> THEN <<>>
    ELSE
    LET df == MapRows(df_pdf,
                  LAMBDA r : [r EXCEPT !.Categoria = canonical_categoria(r.Categoria)])
        pos == SelectSeq(df, LAMBDA r : r.Valor > 0)
        neg == SelectSeq(df, LAMBDA r : r.Valor < 0)
        total(part, cat) ==
            SeqSum(MapRows(SelectSeq(part, LAMBDA r : r.Categoria = cat),
                           LAMBDA r : r.Valor))
        adicionais == MapRows(SortSet({r.Categoria : r \in Range(pos)}, LessText),
                          LAMBDA c : [Categoria |-> c, Adicionais |-> total(pos, c)])
        descontos  == MapRows(SortSet({r.Categoria : r \in Range(neg)}, LessText),
                          LAMBDA c : [Categoria |-> c, Descontos |-> total(neg, c)])
    IN  Liquidos(adicionais, descontos)

\* the dictionary ledger code -> tipo built by sum_txt_by_categoria
RECURSIVE la_tipo_of(_, _)
la_tipo_of(its, la_tipo) ==
    IF its = <<>> THEN la_tipo
    ELSE LET la   == Strip(StrOf(ItemGet(Head(its).it, "codigo_lancamento", <<>>)))
             tipo == Strip(StrOf(ItemGet(Head(its).it, "tipo", <<>>)))
         IN  la_tipo_of(Tail(its),
                        IF la # <<>> THEN DictSet(la_tipo, la, tipo) ELSE la_tipo)

apply_sign(row, la_tipo) ==
    LET cod   == Strip(StrOf(row.CodigoLA))
        valor == Abs(row.Valor)
        tipo  == DictGet(la_tipo, cod, Adicional)
    IN  IF normalize_text(tipo) \in {k_desconto, k_descontos} THEN -valor ELSE valor

\* the pair <<result, not_mapped>>
sum_txt_by_categoria(df_txt, mapping) ==
    IF df_txt = <<>> THEN <<(<<>>), (<<>>)>>
    ELSE
    LET la_tipo == la_tipo_of(mapping_items(mapping), <<>>)
        df == MapRows(df_txt,
                  LAMBDA r : [CodigoLA  |-> r.CodigoLA,
                              Valor     |-> r.Valor,
                              Descricao |-> r.Descricao,
                              Categoria |-> classify_txt_by_description(r.Descricao),
                              ValorComSinal |-> apply_sign(r, la_tipo)])
        not_mapped == MapRows(SelectSeq(df, LAMBDA r : r.Categoria = SemMapeamento),
                          LAMBDA r : [CodigoLA  |-> r.CodigoLA,
                                      Valor     |-> r.Valor,
                                      Descricao |-> r.Descricao])
        df_mapped == MapRows(SelectSeq(df, LAMBDA r : r.Categoria # SemMapeamento),
                         LAMBDA r : [r EXCEPT !.Categoria = canonical_categoria(r.Categoria)])
        pos == SelectSeq(df_mapped, LAMBDA r : r.ValorComSinal > 0)
        neg == SelectSeq(df_mapped, LAMBDA r : r.ValorComSinal < 0)
        total(part, cat) ==
            SeqSum(MapRows(SelectSeq(part, LAMBDA r : r.Categoria = cat),
                           LAMBDA r : r.ValorComSinal))
        adicionais == MapRows(SortSet({r.Categoria : r \in Range(pos)}, LessText),
                          LAMBDA c : [Categoria |-> c, Adicionais |-> total(pos, c)])
        descontos  == MapRows(SortSet({r.Categoria : r \in Range(neg)}, LessText),
                          LAMBDA c : [Categoria |-> c, Descontos |-> total(neg, c)])
    IN  <<Liquidos(adicionais, descontos), not_mapped>>

\* df_txt.groupby("CodigoLA")["Valor"].sum()
txt_by_la(df_txt) ==
    LET las == {r.CodigoLA : r \in Range(df_txt)} \ {NaN}
    IN  MapRows(SortSet(las, LessText),
            LAMBDA la : [CodigoLA |-> la,
                         ValorTXT |-> SeqSum(MapRows(
                             SelectSeq(df_txt, LAMBDA r : r.CodigoLA = la),
                             LAMBDA r : r.Valor))])

sum_txt_by_event(df_txt, ev_map, la2cat) ==
    IF df_txt = <<>> \/ ev_map = <<>> THEN <<>>
    ELSE
    LET txt_la == MapRows(txt_by_la(df_txt),
                      LAMBDA r : [CodigoLA  |-> Strip(StrOf(r.CodigoLA)),
                                  ValorTXT  |-> r.ValorTXT,
                                  Categoria |-> canonical_categoria(
                                      DictGet(la2cat, Strip(StrOf(r.CodigoLA)),
                                              SemMapeamento))])
        ev_map2 == MapRows(ev_map,
                      LAMBDA r : [Categoria |-> r.Categoria,
                                  EventoCod |-> DigitsOf(StrOf(r.EventoCod)),
                                  CodigoLA  |-> Strip(StrOf(r.CodigoLA))])
        matches(e) == SelectSeq(txt_la,
                          LAMBDA t : t.CodigoLA = e.CodigoLA /\ t.Categoria = e.Categoria)
        joined(e) ==
            IF matches(e) = <<>>
            THEN << [Categoria |-> e.Categoria, EventoCod |-> e.EventoCod,
                     CodigoLA |-> e.CodigoLA, ValorTXT |-> 0] >>
            ELSE MapRows(matches(e),
                     LAMBDA t : [Categoria |-> e.Categoria, EventoCod |-> e.EventoCod,
                                 CodigoLA |-> e.CodigoLA, ValorTXT |-> t.ValorTXT])
        RECURSIVE merged(_)
        merged(es) == IF es = <<>> THEN <<>> ELSE joined(Head(es)) \o merged(Tail(es))
    IN  merged(ev_map2)

----------------------------------------------------------------------------
(* Comparacoes                                                             *)

StatusOK == "OK"
StatusDivergente == "DIVERGENTE"

\* the status of a row of compare_by_categoria, from its difference
categoria_status_le(x) ==
    IF Abs(x) <= Tolerance THEN StatusOK ELSE StatusDivergente

categoria_status(x) ==
    IF Abs(x) < Tolerance THEN StatusOK ELSE StatusDivergente

\* the difference column of a report: summary value minus ledger value
difference_cents(valor_pdf, valor_txt) ==
    ((valor_pdf - valor_txt) \div Tolerance) * Tolerance

difference(valor_pdf, valor_txt) == valor_pdf - valor_txt

\* the same comparison with how="left": a category of the ledger alone is lost
compare_by_categoria_left(pdf_sum, txt_sum) ==
    LET cats == {r.Categoria : r \in Range(pdf_sum)}
        liquido(df, cat) ==
            IF \E r \in Range(df) : r.Categoria = cat
            THEN (CHOOSE r \in Range(df) : r.Categoria = cat).Liquido
            ELSE 0
        row(cat) ==
            LET dif == difference(liquido(pdf_sum, cat), liquido(txt_sum, cat))
            IN  [Categoria  |-> cat,
                 LiquidoPDF |-> liquido(pdf_sum, cat),
                 LiquidoTXT |-> liquido(txt_sum, cat),
                 Diferenca  |-> dif,
                 Status     |-> categoria_status(dif)]
    IN  MapRows(SortSet(cats, LessText), row)

compare_by_categoria(pdf_sum, txt_sum) ==
    LET cats == {r.Categoria : r \in Range(pdf_sum) \cup Range(txt_sum)}
        liquido(df, cat) ==
            IF \E r \in Range(df) : r.Categoria = cat
            THEN (CHOOSE r \in Range(df) : r.Categoria = cat).Liquido
            ELSE 0
        row(cat) ==
            LET dif == difference(liquido(pdf_sum, cat), liquido(txt_sum, cat))
            IN  [Categoria  |-> cat,
                 LiquidoPDF |-> liquido(pdf_sum, cat),
                 LiquidoTXT |-> liquido(txt_sum, cat),
                 Diferenca  |-> dif,
                 Status     |-> categoria_status(dif)]
    IN  MapRows(SortSet(cats, LessText), row)

\* <<Categoria, EventoCod>> keys in the order of a multi-column sort
LessCatEv(a, b) ==
    \/ LessText(a.Categoria, b.Categoria)
    \/ a.Categoria = b.Categoria /\ LessText(a.EventoCod, b.EventoCod)

\* the same merge with how="inner": an event without mapping is lost
RECURSIVE merge_ev2la_inner(_, _)
merge_ev2la_inner(pdf_ev, ev2la) ==
    IF pdf_ev = <<>> THEN <<>>
    ELSE LET p  == Head(pdf_ev)
             ms == SelectSeq(ev2la, LAMBDA e : e.Categoria = p.Categoria
                                              /\ e.EventoCod = p.EventoCod)
         IN  MapRows(ms, LAMBDA e : [Categoria |-> p.Categoria, EventoCod |-> p.EventoCod,
                                     EventoNome |-> p.EventoNome, ValorPDF |-> p.ValorPDF,
                                     CodigoLA |-> e.CodigoLA])
             \o merge_ev2la_inner(Tail(pdf_ev), ev2la)

\* left.merge(right, on=["Categoria", "EventoCod"], how="left") with the
\* CodigoLA column of ev2la
RECURSIVE merge_ev2la(_, _)
merge_ev2la(pdf_ev, ev2la) ==
    IF pdf_ev = <<>> THEN <<>>
    ELSE LET p  == Head(pdf_ev)
             ms == SelectSeq(ev2la, LAMBDA e : e.Categoria = p.Categoria
                                              /\ e.EventoCod = p.EventoCod)
             with(la) == [Categoria |-> p.Categoria, EventoCod |-> p.EventoCod,
                          EventoNome |-> p.EventoNome, ValorPDF |-> p.ValorPDF,
                          CodigoLA |-> la]
         IN  (IF ms = <<>> THEN <<with(NaN)>>
              ELSE MapRows(ms, LAMBDA e : with(e.CodigoLA)))
             \o merge_ev2la(Tail(pdf_ev), ev2la)

\* pdf_m.merge(txt_by_ev, on=["Categoria", "EventoCod", "CodigoLA"], how="left")
\* with ValorTXT filled with 0 and the difference column
RECURSIVE merge_txt_by_ev(_, _)
merge_txt_by_ev(pdf_m, txt_by_ev) ==
    IF pdf_m = <<>> THEN <<>>
    ELSE LET p  == Head(pdf_m)
             ms == SelectSeq(txt_by_ev, LAMBDA t : t.Categoria = p.Categoria
                                                  /\ t.EventoCod = p.EventoCod
                                                  /\ t.CodigoLA = p.CodigoLA)
             with(v) == [Categoria |-> p.Categoria, EventoCod |-> p.EventoCod,
                         EventoNome |-> p.EventoNome, CodigoLA |-> p.CodigoLA,
                         ValorPDF |-> p.ValorPDF, ValorTXT |-> v,
                         Diferenca |-> difference(p.ValorPDF, v)]
         IN  (IF ms = <<>> THEN <<with(0)>>
              ELSE MapRows(ms, LAMBDA t : with(t.ValorTXT)))
             \o merge_txt_by_ev(Tail(pdf_m), txt_by_ev)

\* one row per summary line, without the groupby
pdf_by_event_lines(df_pdf_events) ==
    SortRows(MapRows(df_pdf_events,
                 LAMBDA r : [Categoria |-> r.Categoria, EventoCod |-> r.EventoCod,
                             ValorPDF |-> r.Valor, EventoNome |-> r.EventoNome]),
             LessCatEv)

\* the summary grouped by (Categoria, EventoCod): the summed amount and the
\* first non-empty name (pdf_ev of compare_by_event)
pdf_by_event(df_pdf_events) ==
    LET keys == {[Categoria |-> r.Categoria, EventoCod |-> r.EventoCod] :
                    r \in Range(df_pdf_events)}
        group(k) == SelectSeq(df_pdf_events,
                        LAMBDA r : r.Categoria = k.Categoria /\ r.EventoCod = k.EventoCod)
        name(k) ==
            LET named == SelectSeq(group(k), LAMBDA r : r.EventoNome # <<>>)
            IN  IF named = <<>> THEN <<>> ELSE Head(named).EventoNome
    IN  MapRows(SortSet(keys, LessCatEv),
            LAMBDA k : [Categoria  |-> k.Categoria,
                        EventoCod  |-> k.EventoCod,
                        ValorPDF   |-> SeqSum(MapRows(group(k), LAMBDA r : r.Valor)),
                        EventoNome |-> name(k)])

\* the triple <<report, sem_map, las_sem_evento_pdf>>
compare_by_event(df_pdf_events, df_txt, mapping) ==
    IF df_pdf_events = <<>> THEN <<(<<>>), (<<>>), (<<>>)>>
    ELSE
    LET pdf_ev == pdf_by_event(df_pdf_events)
        ev2la  == mapping_event_to_la(mapping)
        pdf_m  == merge_ev2la(pdf_ev, ev2la)
        la2cat == mapping_la_to_categoria(mapping)
        txt_by_ev == sum_txt_by_event(df_txt, ev2la, la2cat)
        report == SortRows(merge_txt_by_ev(pdf_m, txt_by_ev), LessCatEv)
        sem_map == Unique(MapRows(SelectSeq(report, LAMBDA r : r.CodigoLA = NaN),
                       LAMBDA r : [Categoria |-> r.Categoria, EventoCod |-> r.EventoCod,
                                   EventoNome |-> r.EventoNome]))
        txt_la == SelectSeq(
                      MapRows(txt_by_la(df_txt),
                          LAMBDA r : [CodigoLA  |-> r.CodigoLA,
                                      ValorTXT  |-> r.ValorTXT,
                                      Categoria |-> DictGet(la2cat, Strip(StrOf(r.CodigoLA)),
                                                            SemMapeamento)]),
                      LAMBDA r : r.Categoria # SemMapeamento)
        used_las  == {r.CodigoLA : r \in Range(report)} \ {NaN}
        extra_las == MapRows(SelectSeq(txt_la, LAMBDA r : r.CodigoLA \notin used_las),
                         LAMBDA r : [r EXCEPT !.Categoria = canonical_categoria(r.Categoria)])
        las_sem_evento_pdf ==
            SortRows(extra_las,
                LAMBDA a, b : \/ LessText(a.Categoria, b.Categoria)
                              \/ a.Categoria = b.Categoria
                                 /\ LessText(a.CodigoLA, b.CodigoLA))
    IN  <<report, sem_map, las_sem_evento_pdf>>

compare_by_la(df_pdf_events, df_txt, mapping) ==
    LET ev2la  == mapping_event_to_la(mapping)
        la2cat == mapping_la_to_categoria(mapping)
        pdf_m  == MapRows(df_pdf_events,
                      LAMBDA r : [r EXCEPT !.EventoCod = DigitsOf(StrOf(r.EventoCod))])
        ev2la2 == MapRows(ev2la,
                      LAMBDA e : [e EXCEPT !.EventoCod = DigitsOf(StrOf(e.EventoCod))])
        \* the rows of the left merge that have a CodigoLA
        RECURSIVE joined(_)
        joined(rows) ==
            IF rows = <<>> THEN <<>>
            ELSE MapRows(SelectSeq(ev2la2,
                             LAMBDA e : e.Categoria = Head(rows).Categoria
                                        /\ e.EventoCod = Head(rows).EventoCod),
                     LAMBDA e : [Categoria |-> e.Categoria, CodigoLA |-> e.CodigoLA,
                                 Valor |-> Head(rows).Valor])
                 \o joined(Tail(rows))
        j == IF df_pdf_events = <<>> \/ ev2la = <<>> THEN <<>> ELSE joined(pdf_m)
        \* groupby(["Categoria", "CodigoLA"]) and then the canonical category
        raw_keys == {[Categoria |-> r.Categoria, CodigoLA |-> r.CodigoLA] : r \in Range(j)}
        pdf_la == MapRows(SortSet(raw_keys,
                              LAMBDA a, b : \/ LessText(a.Categoria, b.Categoria)
                                            \/ a.Categoria = b.Categoria
                                               /\ LessText(a.CodigoLA, b.CodigoLA)),
                      LAMBDA k : [Categoria   |-> canonical_categoria(k.Categoria),
                                  CodigoLA    |-> k.CodigoLA,
                                  ValorPDF_LA |-> SeqSum(MapRows(
                                      SelectSeq(j, LAMBDA r : r.Categoria = k.Categoria
                                                              /\ r.CodigoLA = k.CodigoLA),
                                      LAMBDA r : r.Valor))])
        txt_la == MapRows(txt_by_la(df_txt),
                      LAMBDA r : [CodigoLA    |-> r.CodigoLA,
                                  ValorTXT_LA |-> r.ValorTXT,
                                  Categoria   |-> canonical_categoria(
                                      DictGet(la2cat, Strip(StrOf(r.CodigoLA)),
                                              SemMapeamento))])
        key(r) == [Categoria |-> r.Categoria, CodigoLA |-> r.CodigoLA]
        keys == {key(r) : r \in Range(pdf_la) \cup Range(txt_la)}
        \* pd.merge(pdf_la, txt_la, on=["Categoria", "CodigoLA"], how="outer")
        merged(k) ==
            LET ps == SelectSeq(pdf_la, LAMBDA r : key(r) = k)
                ts == SelectSeq(txt_la, LAMBDA r : key(r) = k)
                row(vp, vt) == [Categoria |-> k.Categoria, CodigoLA |-> k.CodigoLA,
                                ValorPDF_LA |-> vp, ValorTXT_LA |-> vt,
                                Diferenca |-> difference(vp, vt)]
                RECURSIVE cross(_)
                cross(pp) ==
                    IF pp = <<>> THEN <<>>
                    ELSE MapRows(ts, LAMBDA t : row(Head(pp).ValorPDF_LA, t.ValorTXT_LA))
                         \o cross(Tail(pp))
            IN  IF ps = <<>> THEN MapRows(ts, LAMBDA t : row(0, t.ValorTXT_LA))
                ELSE IF ts = <<>> THEN MapRows(ps, LAMBDA q : row(q.ValorPDF_LA, 0))
                ELSE cross(ps)
        numeric == \A k \in keys : k.CodigoLA # <<>> /\ \A i \in DOMAIN k.CodigoLA :
                                                         IsDigit(k.CodigoLA[i])
        la_num(k) == IF numeric THEN NumOf(k.CodigoLA) ELSE 0
        less(a, b) ==
            \/ LessText(a.Categoria, b.Categoria)
            \/ /\ a.Categoria = b.Categoria
               /\ \/ la_num(a) < la_num(b)
                  \/ la_num(a) = la_num(b) /\ LessText(a.CodigoLA, b.CodigoLA)
        sorted_keys == SortSet(keys, less)
        RECURSIVE report_la(_)
        report_la(ks) ==
            IF ks = <<>> THEN <<>> ELSE merged(Head(ks)) \o report_la(Tail(ks))
    IN  report_la(sorted_keys)

----------------------------------------------------------------------------
(* app_resumos.py                                                          *)

\* str(x).zfill(3)
RECURSIVE zfill3(_)
zfill3(s) == IF Len(s) >= 3 THEN s ELSE zfill3(<<"0">> \o s)

\* json.load of the configuration resource, or {} when it cannot be read
load_mapeamento(resource) ==
    IF resource.kind = "missing" THEN <<>>
    ELSE IF resource.kind = "invalid" THEN <<>>
    ELSE resource.data

NaoMapeado == <<"N","ã","o"," ","M","a","p","e","a","d","o">>
Desconhecido == <<"D","e","s","c","o","n","h","e","c","i","d","o">>

mapear_eventos_para_lancamentos(df_eventos, mapeamento) ==
    LET mapear(row) ==
            LET categoria     == row.Categoria
                codigo_evento == zfill3(StrOf(row.Codigo))
                base == [Categoria |-> categoria, Codigo |-> codigo_evento,
                         Descricao |-> row.Descricao, Total |-> row.Total]
                eventos_categoria == DictGet(mapeamento, categoria, <<>>)
                found == SelectSeq(eventos_categoria,
                             LAMBDA item : item.evento = codigo_evento)
            IN  IF ~DictHas(mapeamento, categoria)
                THEN base @@ [CodigoLA |-> NaN, Tipo |-> SemMapeamento]
                ELSE IF found # <<>>
                THEN base @@ [CodigoLA |-> Head(found).codigo_lancamento,
                              Tipo |-> ItemGet(Head(found), "tipo", Desconhecido)]
                ELSE base @@ [CodigoLA |-> NaN, Tipo |-> NaoMapeado]
    IN  MapRows(df_eventos, mapear)

StatusApenasTXT == "Apenas no TXT"
StatusApenasPDF == "Apenas no PDF"
StatusDivergencia == "Divergencia"

determinar_status(row) ==
    IF Abs(row.Diferenca) < Tolerance THEN StatusOK
    ELSE IF row.Total_PDF = 0 THEN StatusApenasTXT
    ELSE IF row.Total_TXT = 0 THEN StatusApenasPDF
    ELSE StatusDivergencia

codigos_excluir_inss == {<<"3","0","0","7","2">>, <<"3","0","0","7","3">>}

codigos_excluir_fgts == {<<"3","0","0","5","1">>, <<"3","0","0","5","9">>,
                         <<"5","0","0","2","6">>, <<"7","0","0","1","5">>}

\* str(int(x)) for a text of digits: no leading zero
RECURSIVE IntStr(_)
IntStr(x) == IF Len(x) > 1 /\ Head(x) = "0" THEN IntStr(Tail(x)) ELSE x

ordem_status(status) ==
    CASE status = StatusDivergencia -> 0
      [] status = StatusApenasPDF   -> 1
      [] status = StatusApenasTXT   -> 2
      [] status = StatusOK          -> 3

\* the two description columns, which only join texts for display, are not kept
realizar_confronto(df_eventos_mapeados, df_lancamentos) ==
    IF df_eventos_mapeados = <<>> THEN <<>>
    ELSE
    LET norm_la(x) == Strip(RemoveAll(StrOf(x), <<".", "0">>))
        eventos_com_la ==
            MapRows(SelectSeq(df_eventos_mapeados, LAMBDA r : r.CodigoLA # NaN),
                LAMBDA r : [r EXCEPT !.CodigoLA = norm_la(r.CodigoLA)])
        pdf_keys == {[CodigoLA |-> r.CodigoLA, Categoria |-> r.Categoria] :
                        r \in Range(eventos_com_la)}
        group(k) == SelectSeq(eventos_com_la,
                        LAMBDA r : r.CodigoLA = k.CodigoLA /\ r.Categoria = k.Categoria)
        pdf_por_la ==
            MapRows(SortSet(pdf_keys,
                        LAMBDA a, b : \/ LessText(a.CodigoLA, b.CodigoLA)
                                      \/ a.CodigoLA = b.CodigoLA
                                         /\ LessText(a.Categoria, b.Categoria)),
                LAMBDA k : [CodigoLA  |-> k.CodigoLA,
                            Categoria |-> k.Categoria,
                            Eventos_PDF |-> SortSet({zfill3(StrOf(r.Codigo)) :
                                                        r \in Range(group(k))}, LessText),
                            Total_PDF |-> SeqSum(MapRows(group(k), LAMBDA r : r.Total))])
        lanc == MapRows(df_lancamentos,
                    LAMBDA r : [r EXCEPT !.CodigoLA = norm_la(r.CodigoLA)])
        txt_por_la ==
            MapRows(SortSet({r.CodigoLA : r \in Range(lanc)}, LessText),
                LAMBDA la : [CodigoLA  |-> la,
                             Total_TXT |-> SeqSum(MapRows(
                                 SelectSeq(lanc, LAMBDA r : r.CodigoLA = la),
                                 LAMBDA r : r.Valor))])
        las == {r.CodigoLA : r \in Range(pdf_por_la) \cup Range(txt_por_la)}
        txt_total(la) ==
            IF \E t \in Range(txt_por_la) : t.CodigoLA = la
            THEN (CHOOSE t \in Range(txt_por_la) : t.CodigoLA = la).Total_TXT
            ELSE 0
        with_status(r) == r @@ [Status |-> determinar_status(r)]
        \* pd.merge(pdf_por_la, txt_por_la, on="CodigoLA", how="outer")
        merged(la) ==
            LET ps == SelectSeq(pdf_por_la, LAMBDA r : r.CodigoLA = la)
            IN  IF ps = <<>>
                THEN << with_status([CodigoLA |-> la, Categoria |-> SemCategoria,
                                     Eventos_PDF |-> <<>>, Total_PDF |-> 0,
                                     Total_TXT |-> txt_total(la),
                                     Diferenca |-> 0 - txt_total(la)]) >>
                ELSE MapRows(ps,
                         LAMBDA q : with_status(
                                    [CodigoLA |-> la, Categoria |-> q.Categoria,
                                     Eventos_PDF |-> q.Eventos_PDF,
                                     Total_PDF |-> q.Total_PDF,
                                     Total_TXT |-> txt_total(la),
                                     Diferenca |-> q.Total_PDF - txt_total(la)]))
        RECURSIVE confronto(_)
        confronto(ls) ==
            IF ls = <<>> THEN <<>> ELSE merged(Head(ls)) \o confronto(Tail(ls))
        normalized(x) == IF x # <<>> /\ \A i \in DOMAIN x : IsDigit(x[i])
                         THEN IntStr(x) ELSE x
        kept == SelectSeq(confronto(SortSet(las, LessText)),
                    LAMBDA r : normalized(r.CodigoLA)
                               \notin codigos_excluir_inss \cup codigos_excluir_fgts)
    IN  SortRows(kept, LAMBDA a, b : ordem_status(a.Status) < ordem_status(b.Status))

----------------------------------------------------------------------------
(* Numbers written as text                                                 *)

\* the money unit of the model: one millionth, so that 358.35 is 358350000
Scale == 1000000

\* s.replace(old, new) for a one-character old
ReplaceChar(s, old, new) ==
    LET RECURSIVE rep(_)
        rep(t) == IF t = <<>> THEN <<>>
                  ELSE (IF Head(t) = old THEN new ELSE <<Head(t)>>) \o rep(Tail(t))
    IN  rep(s)

\* s.split(): the maximal runs without white space
SplitWords(s) == SelectSeq(SplitOn(s, " "), LAMBDA w : w # <<>>)

\* float(s) for the decimal notation [+-]digits[.digits]; ok is FALSE where
\* float raises ValueError.  The exponent, inf, nan and underscore notations
\* of float do not occur in the inputs of the model.
float_of(s) ==
    LET t     == Strip(s)
        neg   == t # <<>> /\ Head(t) = "-"
        body  == IF t # <<>> /\ Head(t) \in {"+", "-"} THEN Tail(t) ELSE t
        parts == SplitOn(body, ".")
        int   == parts[1]
        frac  == IF Len(parts) > 1 THEN parts[2] ELSE <<>>
        valid == /\ Len(parts) <= 2
                 /\ \A i \in DOMAIN body : IsDigit(body[i]) \/ body[i] = "."
                 /\ int \o frac # <<>>
        frac6 == SubSeq(frac \o <<"0","0","0","0","0","0">>, 1, 6)
        mag   == NumOf(int) * Scale + NumOf(frac6)
    IN  IF valid THEN [ok |-> TRUE, value |-> IF neg THEN -mag ELSE mag]
        ELSE [ok |-> FALSE, value |-> 0]

\* the amount that is no number taken as 0.0
parse_brl_decimal_zero(s) ==
    LET parsed == float_of(ReplaceChar(RemoveAll(Strip(s), <<".">>), ",", <<".">>))
    IN  [ok |-> TRUE, value |-> IF parsed.ok THEN parsed.value ELSE 0]

parse_brl_decimal(s) ==
    float_of(ReplaceChar(RemoveAll(Strip(s), <<".">>), ",", <<".">>))

----------------------------------------------------------------------------
(* parse_pdf_events, one line at a time                                    *)

\* a line of the summary: its text and the texts that
\* _assign_to_nearest_column puts under the Codigo, Evento and Valor headers
PdfLine(text, codigo, evento, valor) ==
    [text |-> text, codigo |-> codigo, evento |-> evento, valor |-> valor]

\* the place in lines_read where a page ends and the next one starts
PageBreak == PdfLine(<<>>, <<>>, <<>>, <<>>)

\* _find_header_centers finds a word for each of the five column names
find_header_centers(line) ==
    LET words == {normalize_text(w) : w \in Range(SplitWords(line.text))}
        name_map == { {<<"c","o","d","i","g","o">>, <<"c","ó","d","i","g","o">>},
                      {<<"e","v","e","n","t","o">>},
                      {<<"q","u","a","n","t","i","d","a","d","e">>},
                      {<<"v","a","l","o","r">>},
                      {<<"f","u","n","c","i","o","n","a","r","i","o","s">>,
                       <<"f","u","n","c","i","o","n","á","r","i","o","s">>} }
    IN  \A variants \in name_map : words \cap variants # {}

\* the keywords of a category title
category_tokens ==
    { k_folha, k_rescisao, <<"f","é","r","i","a","s">>, k_ferias, k_adiantamento,
      <<"p","r","o"," ","l","a","b","o","r","e">>,
      <<"p","r","ó","-","l","a","b","o","r","e">>,
      <<"d","e","c","i","m","o">>, <<"d","é","c","i","m","o">> }

MaxTitleLen == 80

is_category_title(line) ==
    LET norm_line == normalize_text(line.text)
    IN  /\ norm_line # <<>>
        /\ Len(norm_line) <= MaxTitleLen
        /\ \A i \in DOMAIN norm_line : ~IsDigit(norm_line[i])
        /\ \/ Contains(line.text, <<"/">>)
           \/ \E tok \in category_tokens : Contains(norm_line, tok)

\* the column centers are dropped and the flag is left as it was
exit_block_keeps_flag(was_in_block) == [centers |-> FALSE, in_block |-> was_in_block]

\* centers = None; in_block = False
exit_block(was_in_block) == [centers |-> FALSE, in_block |-> FALSE]

\* the header keeps the category of the block before it
commit_pending_never(pending, current) == current

\* if pending_cat: current_cat = pending_cat
commit_pending(pending, current) == IF pending # None THEN pending ELSE current

\* the keywords that close a data block
footer_tokens ==
    { <<"t","o","t","a","i","s">>, <<"b","a","s","e"," ","i","n","s","s">>,
      <<"b","a","s","e"," ","i","r","r","f">>, <<"b","a","s","e"," ","f","g","t","s">>,
      <<"l","í","q","u","i","d","o","s">>, <<"l","i","q","u","i","d","o","s">> }

is_footer(line) ==
    \E k \in footer_tokens : Contains(normalize_text(line.text), k)

\* the sign in front of the code, "+" when there is none
sinal_of(codigo_col) ==
    IF codigo_col # <<>> /\ Head(codigo_col) \in {"+", "-"} THEN Head(codigo_col) ELSE "+"

\* the digits of the code column
codigo_digits_of(codigo_col) ==
    DigitsOf(IF codigo_col # <<>> /\ Head(codigo_col) \in {"+", "-"}
             THEN Strip(Tail(codigo_col)) ELSE codigo_col)

\* the last token with a decimal comma, or the whole text
valor_token_of(valor_txt) ==
    LET candidates == SelectSeq(SplitWords(RemoveAll(valor_txt, <<".">>)),
                                LAMBDA t : Contains(t, <<",">>))
    IN  IF candidates # <<>> THEN candidates[Len(candidates)] ELSE valor_txt

\* the amount kept without its sign
apply_sinal_unsigned(sinal, valor_num) == Abs(valor_num)

\* the amount with the sign applied
apply_sinal(sinal, valor_num) ==
    IF sinal = "-" THEN -Abs(valor_num) ELSE Abs(valor_num)

\* re.match(r"^[\+\-\s]*\d{1,6}\s+(.*)$", evento): the text after a leading
\* sign and code, or the text itself
evento_clean_of(evento_col) ==
    LET RECURSIVE run(_, _, _)
        \* the length of the longest prefix of s from position i with class cls
        run(s, i, cls) == IF i <= Len(s) /\ s[i] \in cls THEN 1 + run(s, i + 1, cls) ELSE 0
        digits == {"0","1","2","3","4","5","6","7","8","9"}
        a == run(evento_col, 1, {"+", "-", " "})
        d == run(evento_col, a + 1, digits)
        w == run(evento_col, a + d + 1, {" "})
    IN  IF d >= 1 /\ d <= 6 /\ w >= 1
        THEN Strip(SubSeq(evento_col, a + d + w + 1, Len(evento_col)))
        ELSE evento_col

----------------------------------------------------------------------------
(* The ledger extractors                                                   *)

\* row[i] of a csv row, stripped, or "" when the row is shorter; i counts from 0
field(row, i) == IF Len(row) > i THEN Strip(row[i + 1]) ELSE <<>>

\* the number of a ledger amount: parse_brl_decimal, and where that raises
\* float of the text without commas
valor_of(val_clean) ==
    LET first  == parse_brl_decimal(val_clean)
        second == float_of(RemoveAll(val_clean, <<",">>))
    IN  IF first.ok THEN first ELSE second

\* parse_txt_codes_values on the rows that csv.reader yields
RECURSIVE parse_txt_codes_values(_)
parse_txt_codes_values(reader) ==
    IF reader = <<>> THEN <<>>
    ELSE LET row       == Head(reader)
             cod       == RemoveAll(field(row, 1), <<".","0">>)
             val_clean == RemoveAll(RemoveAll(field(row, 3), <<"\"">>), <<" ">>)
             desc      == field(row, 7)
             valor     == valor_of(val_clean)
         IN  (IF row = <<>> \/ ~valor.ok THEN <<>>
              ELSE << [CodigoLA  |-> IF cod # <<>> THEN cod ELSE NaN,
                       Valor     |-> Abs(valor.value),
                       Descricao |-> desc] >>)
             \o parse_txt_codes_values(Tail(reader))

\* the least number of digits of a ledger code in app_resumos.py
MinCodigoLen == 4

\* parse_brl_decimal of app_resumos.py: 0.0 where float raises
resumos_parse_brl_decimal(s) ==
    IF parse_brl_decimal(s).ok THEN parse_brl_decimal(s).value ELSE 0

\* s.strip(ch) for one character
StripChar(s, ch) ==
    LET RECURSIVE l(_)
        l(t) == IF t # <<>> /\ Head(t) = ch THEN l(Tail(t)) ELSE t
        RECURSIVE r(_)
        r(t) == IF t # <<>> /\ t[Len(t)] = ch THEN r(SubSeq(t, 1, Len(t) - 1)) ELSE t
    IN  r(l(s))

\* parse_txt_lancamentos on the rows that csv.reader yields
RECURSIVE parse_txt_lancamentos(_)
parse_txt_lancamentos(reader) ==
    IF reader = <<>> THEN <<>>
    ELSE LET partes    == Head(reader)
             codigo_la == Strip(StripChar(StripChar(field(partes, 1), "\""), "'"))
             valor     == resumos_parse_brl_decimal(field(partes, 3))
             descricao == field(partes, 7)
             skipped   == \/ Len(partes) < 4
                          \/ codigo_la = <<>>
                          \/ \E i \in DOMAIN codigo_la : ~IsDigit(codigo_la[i])
                          \/ Len(codigo_la) < MinCodigoLen
                          \/ valor = 0
         IN  (IF skipped THEN <<>>
              ELSE << [CodigoLA |-> codigo_la, Valor |-> Abs(valor),
                       Descricao |-> descricao] >>)
             \o parse_txt_lancamentos(Tail(reader))

----------------------------------------------------------------------------
(* The mapping loaders and what they raise                                 *)

\* load_mapping ends in AttributeError on valid JSON that is no object of
\* lists of objects: data.items() of a list, it.get of a character
load_mapping_raises(resource) ==
    resource.kind \in {"json_list", "json_text_items"}

\* load_mapping() as a call: the mapping returned or the exception raised
load_mapping_outcome(resource) ==
    IF resource.kind \in {"missing", "invalid"} THEN [value |-> <<>>]
    ELSE IF load_mapping_raises(resource) THEN [raised |-> "AttributeError"]
    ELSE [value |-> load_mapping(resource)]

\* load_mapeamento() of processar_resumos_modernos.py: json.load outside any
\* try, its result returned as it is
modernos_load_mapeamento(resource) ==
    IF resource.kind = "missing" THEN [value |-> <<>>]
    ELSE IF resource.kind = "invalid" THEN [raised |-> "JSONDecodeError"]
    ELSE [value |-> resource.data]

----------------------------------------------------------------------------
(* calcular_liquidos_por_categoria                                         *)

\* the net amount as the sum of the two totals
liquido_soma(adicionais, descontos) == adicionais + descontos

\* liquido = adicionais - descontos
liquido_of(adicionais, descontos) == adicionais - descontos

calcular_liquidos_por_categoria(df_eventos_mapeados) ==
    LET df_mapeados == SelectSeq(df_eventos_mapeados, LAMBDA r : r.CodigoLA # NaN)
        categorias  == Unique(MapRows(df_mapeados, LAMBDA r : r.Categoria))
        total(categoria, tipo) ==
            SeqSum(MapRows(SelectSeq(df_mapeados,
                               LAMBDA r : r.Categoria = categoria /\ r.Tipo = tipo),
                           LAMBDA r : r.Total))
        resumo(categoria) ==
            [Categoria        |-> categoria,
             Total_Adicionais |-> total(categoria, Adicional),
             Total_Descontos  |-> total(categoria, Desconto),
             Liquido          |-> liquido_of(total(categoria, Adicional),
                                             total(categoria, Desconto))]
    IN  MapRows(categorias, resumo)

----------------------------------------------------------------------------
(* get_event_type_from_mapping                                             *)

\* the lookup deciding on the last entry of the event
get_event_type_from_last(categoria, codigo_evento, mapeamento) ==
    LET codigo == zfill3(StrOf(codigo_evento))
        found  == SelectSeq(DictGet(mapeamento, categoria, <<>>),
                            LAMBDA item : ItemGet(item, "evento", None) = codigo)
    IN  IF mapeamento = <<>> \/ ~DictHas(mapeamento, categoria) THEN Adicional
        ELSE IF found = <<>> THEN Adicional
        ELSE IF normalize_text(ItemGet(found[Len(found)], "tipo", Adicional))
                    \in {k_desconto, k_descontos}
        THEN Desconto
        ELSE Adicional

get_event_type_from_mapping(categoria, codigo_evento, mapeamento) ==
    LET codigo == zfill3(StrOf(codigo_evento))
        found  == SelectSeq(DictGet(mapeamento, categoria, <<>>),
                            LAMBDA item : ItemGet(item, "evento", None) = codigo)
    IN  IF mapeamento = <<>> \/ ~DictHas(mapeamento, categoria) THEN Adicional
        ELSE IF found = <<>> THEN Adicional
        ELSE IF normalize_text(ItemGet(Head(found), "tipo", Adicional))
                    \in {k_desconto, k_descontos}
        THEN Desconto
        ELSE Adicional

----------------------------------------------------------------------------
(* extrair_eventos_resumo_simples                                          *)

\* str.lower()
Lower(s) == [i \in DOMAIN s |-> LowerChar(s[i])]

\* the words of a line joined again
RECURSIVE JoinWords(_)
JoinWords(ws) ==
    IF ws = <<>> THEN <<>>
    ELSE IF Len(ws) = 1 THEN ws[1]
    ELSE ws[1] \o <<" ">> \o JoinWords(Tail(ws))

\* a word matched by [\d.,]+
IsValueWord(w) ==
    w # <<>> /\ \A i \in DOMAIN w : IsDigit(w[i]) \/ w[i] \in {".", ","}

\* a word matched by \d+
IsDigitsWord(w) == w # <<>> /\ \A i \in DOMAIN w : IsDigit(w[i])

\* the words that make extrair_eventos_resumo_simples skip a line
palavras_ignoradas ==
    { <<"t","o","t","a","l">>,
      <<"a","d","i","c","i","o","n","a","i","s">>,
      <<"d","e","s","c","o","n","t","o","s">>,
      <<"c","o","d","i","g","o">>,
      <<"a","t","i","v","o","s">>,
      <<"d","e","m","i","t","i","d","o","s">>,
      <<"a","f","a","s","t","a","d","o","s">>,
      <<"v","a","l","o","r","e","s"," ","p","a","g","o","s">>,
      <<"t","i","p","o"," ","p","r","o","c","e","s","s","o">>,
      <<"r","e","s","u","m","o"," ","g","e","r","a","l">>,
      <<"e","m","p","r","e","s","a">>,
      <<"p","e","r","i","o","d","o">>,
      <<"c","n","p","j">>,
      <<"e","n","d","e","r","e","c","o">>,
      <<"l","í","q","u","i","d","o">>,
      <<"f","u","n","c","i","o","n","á","r","i","o","s">>,
      <<"s","ó","c","i","o","s">>,
      <<"b","a","s","e"," ","i","n","s","s">>,
      <<"b","a","s","e"," ","i","r","r","f">>,
      <<"b","a","s","e"," ","f","g","t","s">>,
      <<"q","u","a","n","t","i","d","a","d","e">>,
      <<"v","a","l","o","r">>,
      <<"p","á","g","i","n","a">>,
      <<"e","m","i","s","s","ã","o">> }

\* the three patterns on the words of a stripped line: the code, the
\* description, the amount text and the prefix flag of the first pattern
\* that matches, tried in the order of the code
match_evento(linha) ==
    LET ws == SplitWords(linha)
        n  == Len(ws)
        codigo3(w) == IsDigitsWord(w) /\ Len(w) = 3
        \* ^[+\-]\s+(\d{3})\s+(.+?)\s+([\d.,]+)\s+(\d+)\s*$
        padrao1 == /\ n >= 5
                   /\ ws[1] \in {<<"+">>, <<"-">>}
                   /\ codigo3(ws[2])
                   /\ IsValueWord(ws[n - 1])
                   /\ IsDigitsWord(ws[n])
        \* ^(\d{3})\s+(.+?)\s+((?:[\d.,]+\s+)+[\d.,]+)\s*$: the description
        \* ends at the first word k after which only amounts follow, two at least
        ends2 == {k \in 2..(n - 2) : \A j \in (k + 1)..n : IsValueWord(ws[j])}
        padrao2 == n >= 4 /\ codigo3(ws[1]) /\ ends2 # {}
        k2 == CHOOSE k \in ends2 : \A j \in ends2 : k <= j
        \* ^(\d{3})\s+(.+?)\s+([\d.,]+)\s+(\d+)\s*$
        padrao3 == /\ n >= 4
                   /\ codigo3(ws[1])
                   /\ IsValueWord(ws[n - 1])
                   /\ IsDigitsWord(ws[n])
    IN  IF padrao1
        THEN [matched |-> TRUE, codigo |-> ws[2], descricao |-> JoinWords(SubSeq(ws, 3, n - 2)),
              valor_str |-> ws[n - 1], has_prefix |-> TRUE]
        ELSE IF padrao2
        THEN [matched |-> TRUE, codigo |-> ws[1], descricao |-> JoinWords(SubSeq(ws, 2, k2)),
              valor_str |-> ws[n], has_prefix |-> FALSE]
        ELSE IF padrao3
        THEN [matched |-> TRUE, codigo |-> ws[1], descricao |-> JoinWords(SubSeq(ws, 2, n - 2)),
              valor_str |-> ws[n - 1], has_prefix |-> FALSE]
        ELSE [matched |-> FALSE]

\* the loop over the lines of the text, dentro_secao_ignorada being the flag
\* of the section left out
RECURSIVE extrair_eventos(_, _)
extrair_eventos(linhas, dentro_secao_ignorada) ==
    IF linhas = <<>> THEN <<>>
    ELSE LET linha       == Head(linhas)
             linha_lower == Lower(linha)
             has(k)      == Contains(linha_lower, k)
             nao_influenciam == has(<<"n","ã","o"," ","i","n","f","l","u","e","n","c","i","a","m">>)
             nao_aparecem_em_folha == has(<<"n","ã","o"," ","a","p","a","r","e","c","e","m"," ","e","m"," ","f","o","l","h","a">>)
             nao_aparecem == has(<<"n","ã","o"," ","a","p","a","r","e","c","e","m">>)
             separador == \/ SubSeq(Strip(linha), 1, 5) = <<"_","_","_","_","_">>
                          \/ SubSeq(Strip(linha), 1, 5) = <<"-","-","-","-","-">>
             m     == match_evento(Strip(linha))
             total == resumos_parse_brl_decimal(m.valor_str)
         IN  IF nao_influenciam \/ nao_aparecem_em_folha
             THEN extrair_eventos(Tail(linhas), TRUE)
             ELSE IF dentro_secao_ignorada
             THEN extrair_eventos(Tail(linhas),
                      ~(\/ has(<<"t","o","t","a","l">>) /\ (nao_aparecem \/ nao_influenciam)
                        \/ separador))
             ELSE IF \E palavra \in palavras_ignoradas : has(palavra)
             THEN extrair_eventos(Tail(linhas), FALSE)
             ELSE IF m.matched /\ total > 0
             THEN << [Codigo |-> m.codigo, Descricao |-> m.descricao,
                      Total |-> Abs(total), HasPrefix |-> m.has_prefix] >>
                  \o extrair_eventos(Tail(linhas), FALSE)
             ELSE extrair_eventos(Tail(linhas), FALSE)

\* extrair_eventos_resumo_simples on the lines of the text of the pages
extrair_eventos_resumo_simples(linhas) == extrair_eventos(linhas, FALSE)

----------------------------------------------------------------------------
(* composition_report_by_la                                                *)

FolhaSocios == <<"F","o","l","h","a"," ","S","ó","c","i","o","s">>

extract_folha_socios_codes(mapping) ==
    SelectSeq(MapRows(DictGet(mapping, FolhaSocios, <<>>),
                  LAMBDA item : Strip(StrOf(ItemGet(item, "codigo_lancamento", <<>>)))),
              LAMBDA cod : cod # <<>>)

\* the denylist without the codes of Folha Socios
excluded_codes_fixed(mapping) ==
    {<<"3","0","0","5","1">>, <<"3","0","0","5","9">>, <<"5","0","0","2","6">>, <<"7","0","0","1","5">>, <<"3","0","0","7","2">>, <<"3","0","0","7","3">>}

\* EXCLUDED_CODES after the codes of Folha Socios are added
excluded_codes(mapping) ==
    {<<"3","0","0","5","1">>, <<"3","0","0","5","9">>, <<"5","0","0","2","6">>, <<"7","0","0","1","5">>, <<"3","0","0","7","2">>, <<"3","0","0","7","3">>}
    \cup Range(extract_folha_socios_codes(mapping))

SemDescricao == <<"S","e","m"," ","d","e","s","c","r","i","ç","ã","o">>

composition_report_by_la(df_pdf_events, df_txt, mapping) ==
    LET EXCLUDED_CODES == excluded_codes(mapping)
        ev2la  == mapping_event_to_la(mapping)
        \* the left merge of the events with ev2la, rows without CodigoLA dropped
        RECURSIVE join(_)
        join(evs) ==
            IF evs = <<>> THEN <<>>
            ELSE MapRows(SelectSeq(ev2la,
                             LAMBDA e : /\ e.Categoria = Head(evs).Categoria
                                        /\ DigitsOf(e.EventoCod) = DigitsOf(Head(evs).EventoCod)),
                         LAMBDA e : [CodigoLA |-> e.CodigoLA,
                                     EventoCod |-> DigitsOf(Head(evs).EventoCod),
                                     Valor |-> Head(evs).Valor])
                 \o join(Tail(evs))
        joined  == join(df_pdf_events)
        pdf_las == {r.CodigoLA : r \in Range(joined)}
        txt_las == {r.CodigoLA : r \in Range(df_txt)} \ {NaN}
        RECURSIVE join_text(_)
        join_text(ws) == IF ws = <<>> THEN <<>>
                         ELSE IF Len(ws) = 1 THEN ws[1]
                         ELSE ws[1] \o <<",", " ">> \o join_text(Tail(ws))
        eventos(la) == join_text(SortSet({r.EventoCod : r \in {x \in Range(joined) : x.CodigoLA = la}},
                                         LessText))
        valor_pdf(la) == SeqSum(MapRows(SelectSeq(joined, LAMBDA r : r.CodigoLA = la),
                                        LAMBDA r : r.Valor))
        valor_txt(la) == SeqSum(MapRows(SelectSeq(df_txt, LAMBDA r : r.CodigoLA = la),
                                        LAMBDA r : r.Valor))
        descricao_of(la) ==
            IF la \in txt_las
            THEN Head(SelectSeq(df_txt, LAMBDA r : r.CodigoLA = la)).Descricao
            ELSE SemDescricao
        row(la) == [CodigoLA  |-> la,
                    Eventos   |-> IF la \in pdf_las THEN eventos(la) ELSE <<>>,
                    Descricao |-> descricao_of(la),
                    ValorPDF  |-> Abs(valor_pdf(la)),
                    ValorTXT  |-> Abs(valor_txt(la)),
                    Diferenca |-> Abs(valor_pdf(la)) - Abs(valor_txt(la))]
        kept    == (pdf_las \cup txt_las) \ EXCLUDED_CODES
        numeric == \A la \in kept : la # <<>> /\ \A i \in DOMAIN la : IsDigit(la[i])
        sorted  == IF numeric THEN SortSet(kept, LAMBDA a, b : NumOf(a) < NumOf(b))
                   ELSE SortSet(kept, LessText)
    IN  IF df_pdf_events = <<>> \/ ev2la = <<>> \/ joined = <<>> THEN <<>>
        ELSE MapRows(sorted, row)

\* app.py, the composition report on the screen: the three counters above it
total_las(report_composition) == Len(report_composition)

total_divergencias_la(report_composition) ==
    Len(SelectSeq(report_composition, LAMBDA r : Abs(r.Diferenca) > Tolerance))

total_ok_la(report_composition) ==
    total_las(report_composition) - total_divergencias_la(report_composition)

\* the Status column added to the displayed copy of the report
report_comp_display_status(x) ==
    IF Abs(x) < Tolerance THEN StatusOK ELSE StatusDivergente

report_comp_display(report_composition) ==
    MapRows(report_composition,
            LAMBDA r : [CodigoLA |-> r.CodigoLA,
                        Diferenca |-> r.Diferenca,
                        Status |-> report_comp_display_status(r.Diferenca)])

----------------------------------------------------------------------------
(* app_resumos.py: FGTS against the ledger, loans apart                    *)

FGTS == <<"F","G","T","S">>

\* the loan codes confrontar_fgts leaves out
codigos_emprestimo ==
    << <<"3","0","0","7","4">>, <<"3","0","0","7","5">>, <<"4","0","0","4","5">>,
       <<"5","0","0","3","5">>, <<"7","0","0","4","4">>, <<"7","0","0","4","5">> >>

\* the loan codes calcular_emprestimos_fgts adds and subtracts
emprestimos_adicionais_la ==
    << <<"3","0","0","7","5">>, <<"4","0","0","4","5">>,
       <<"5","0","0","3","5">>, <<"7","0","0","4","5">> >>
emprestimos_descontos_la == << <<"3","0","0","7","4">>, <<"7","0","0","4","4">> >>

\* str(int(x)) if x.isdigit() else x
normalizar_codigo_la(x) == IF IsDigitsWord(x) THEN IntStr(x) ELSE x

\* the codes of the given type with the loan codes among them
fgts_la_with_loans(codigos_fgts, tipo) ==
    MapRows(SelectSeq(codigos_fgts, LAMBDA item : item.tipo = tipo),
            LAMBDA item : IntStr(item.codigo_lancamento))

\* [str(int(item['codigo_lancamento'])) for item in codigos_fgts
\*  if item['tipo'] == tipo and str(int(...)) not in codigos_emprestimo]
fgts_la(codigos_fgts, tipo) ==
    MapRows(SelectSeq(codigos_fgts,
                LAMBDA item : /\ item.tipo = tipo
                              /\ IntStr(item.codigo_lancamento)
                                    \notin Range(codigos_emprestimo)),
            LAMBDA item : IntStr(item.codigo_lancamento))

\* sum of abs(Valor) over the rows whose code is in la_take and not in
\* la_skip (the if and the elif of the loop over the rows)
total_abs(df, la_take, la_skip) ==
    SeqSum(MapRows(SelectSeq(df, LAMBDA row : /\ row.CodigoLA \in Range(la_take)
                                              /\ row.CodigoLA \notin Range(la_skip)),
                   LAMBDA row : Abs(row.Valor)))

\* the debug_log of the result, lines of text for display, is not kept;
\* an entry of the FGTS section without 'tipo' raises KeyError
confrontar_fgts(fgts_resumo_geral, df_lancamentos, mapeamento) ==
    IF df_lancamentos = <<>> \/ ~DictHas(mapeamento, FGTS)
    THEN [FGTS_Resumo_Geral |-> fgts_resumo_geral, FGTS_TXT_Total |-> 0,
          FGTS_Diferenca |-> fgts_resumo_geral, FGTS_TXT_Adicionais |-> 0,
          FGTS_TXT_Descontos |-> 0, raised |-> "none"]
    ELSE
    LET codigos_fgts == DictGet(mapeamento, FGTS, <<>>)
    IN  IF \E i \in DOMAIN codigos_fgts : "tipo" \notin DOMAIN codigos_fgts[i]
        THEN [FGTS_Resumo_Geral |-> fgts_resumo_geral, FGTS_TXT_Total |-> 0,
              FGTS_Diferenca |-> 0, FGTS_TXT_Adicionais |-> 0,
              FGTS_TXT_Descontos |-> 0, raised |-> "KeyError"]
        ELSE
        LET adicionais_la == fgts_la(codigos_fgts, Adicional)
            descontos_la  == fgts_la(codigos_fgts, Desconto)
            df == MapRows(df_lancamentos,
                      LAMBDA row : [row EXCEPT !.CodigoLA = normalizar_codigo_la(@)])
            total_adicionais == total_abs(df, adicionais_la, <<>>)
            total_descontos  == total_abs(df, descontos_la, adicionais_la)
            soma_txt == total_adicionais - total_descontos
        IN  [FGTS_Resumo_Geral |-> fgts_resumo_geral, FGTS_TXT_Total |-> soma_txt,
             FGTS_Diferenca |-> fgts_resumo_geral - soma_txt,
             FGTS_TXT_Adicionais |-> total_adicionais,
             FGTS_TXT_Descontos |-> total_descontos, raised |-> "none"]

calcular_emprestimos_fgts(df_lancamentos) ==
    IF df_lancamentos = <<>>
    THEN [Emprestimos_Total |-> 0, Emprestimos_Adicionais |-> 0,
          Emprestimos_Descontos |-> 0]
    ELSE
    LET df == MapRows(df_lancamentos,
                  LAMBDA row : [row EXCEPT !.CodigoLA = normalizar_codigo_la(@)])
        total_adicionais == total_abs(df, emprestimos_adicionais_la, <<>>)
        total_descontos  == total_abs(df, emprestimos_descontos_la,
                                      emprestimos_adicionais_la)
    IN  [Emprestimos_Total |-> total_adicionais - total_descontos,
         Emprestimos_Adicionais |-> total_adicionais,
         Emprestimos_Descontos |-> total_descontos]

----------------------------------------------------------------------------
(* app.py: pro-labore and self-employed values of the general summary      *)

\* the extractor before the first line
socios_start ==
    [in_socios_section |-> FALSE, pro_labore_bruto |-> 0, autonomos_bruto |-> 0,
     inss_socios |-> 0, inss_autonomos |-> 0,
     pro_labore_liquido |-> 0, autonomos_liquido |-> 0]

\* [p for p in line_text.split() if "," in p]
valores_of(line_text) ==
    SelectSeq(SplitWords(line_text), LAMBDA w : Contains(w, <<",">>))

\* the two assignments inside try: the first stays when the second raises
assign_pair(st, line_text, first, second) ==
    LET valores == valores_of(line_text)
        a == parse_brl_decimal(valores[Len(valores) - 1])
        b == parse_brl_decimal(valores[Len(valores)])
    IN  IF Len(valores) < 2 \/ ~a.ok THEN st
        ELSE IF ~b.ok THEN [st EXCEPT ![first] = a.value]
        ELSE [st EXCEPT ![first] = a.value, ![second] = b.value]

\* the body of the loop over the lines
socios_line(st, line_text) ==
    LET norm_line == normalize_text(line_text)
        has(k) == Contains(norm_line, k)
    IN  IF has(<<"v","a","l","o","r","e","s"," ","p","a","g","o","s"," ","a","o","s"," ","s","o","c","i","o","s">>) \/ has(<<"v","a","l","o","r","e","s"," ","s","o","c","i","o","s">>)
        THEN [st EXCEPT !.in_socios_section = TRUE]
        ELSE IF ~st.in_socios_section THEN st
        ELSE IF has(<<"t","o","t","a","l"," ","d","e"," ","s","o","c","i","o","s">>) \/ has(<<"t","o","t","a","l"," ","l","i","q","u","i","d","o"," ","a"," ","p","a","g","a","r">>)
        THEN IF has(<<"t","o","t","a","l"," ","l","i","q","u","i","d","o"," ","a"," ","p","a","g","a","r">>)
             THEN assign_pair(st, line_text, "pro_labore_liquido", "autonomos_liquido")
             ELSE st
        ELSE
        LET st1 == IF Contains(line_text, <<"0","0","3">>) /\ has(<<"p","r","o"," ","l","a","b","o","r","e">>)
                   THEN assign_pair(st, line_text, "pro_labore_bruto", "autonomos_bruto")
                   ELSE st
        IN  IF Contains(line_text, <<"0","1","3">>) /\ has(<<"i","n","s","s">>)
            THEN assign_pair(st1, line_text, "inss_socios", "inss_autonomos")
            ELSE st1

\* the extractor after the lines of all pages
RECURSIVE socios_after(_)
socios_after(lines) ==
    IF lines = <<>> THEN socios_start
    ELSE socios_line(socios_after(SubSeq(lines, 1, Len(lines) - 1)), lines[Len(lines)])

extract_socios_autonomos_resumo_geral(lines) ==
    LET st == socios_after(lines)
    IN  [pro_labore_bruto |-> st.pro_labore_bruto,
         pro_labore_inss |-> st.inss_socios,
         pro_labore_liquido |-> IF st.pro_labore_liquido = 0
                                THEN st.pro_labore_bruto - st.inss_socios
                                ELSE st.pro_labore_liquido,
         autonomos_bruto |-> st.autonomos_bruto,
         autonomos_inss |-> st.inss_autonomos,
         autonomos_liquido |-> IF st.autonomos_liquido = 0
                               THEN st.autonomos_bruto - st.inss_autonomos
                               ELSE st.autonomos_liquido]

----------------------------------------------------------------------------
(* Inputs                                                                  *)

MaxPdfRows == 2
MaxTxtRows == 2
MaxEventos == 2
MaxLancamentos == 2
MaxDescWords == 2

E001 == <<"0","0","1">>
E009 == <<"0","0","9">>
E010 == <<"0","1","0">>
LA30057 == <<"3","0","0","5","7">>
LA30057_0 == <<"3","0","0","5","7",".","0">>
LA30058 == <<"3","0","0","5","8">>
LA30072 == <<"3","0","0","7","2">>
LA99999 == <<"9","9","9","9","9">>
D_FERIAS == <<"F","É","R","I","A","S">>
D_Folha == <<"F","o","l","h","a">>
D_pagto == <<"p","a","g","t","o">>
RawFERIAS == <<"F","É","R","I","A","S">>

Item(ev, la, tipo) == [evento |-> ev, codigo_lancamento |-> la, tipo |-> tipo]

\* contents of mapeamento_dp.json: category -> list of items
DataA == << <<Ferias, <<Item(E009, LA30057, Adicional), Item(E010, LA30058, Desconto)>> >>,
            <<Folha,  <<Item(E001, LA30057, Adicional), Item(E010, LA30058, Desconto)>> >> >>

DataB == << <<RawFERIAS, <<Item(E009, LA30057_0, Adicional),
                            Item(E009, LA30058, Desconto)>> >>,
            <<Rescisao, <<Item(E009, LA30057, Adicional),
                          Item(E010, LA30058, Desconto)>> >> >>

\* a configuration in which two events of a category have the same ledger code
DataH == << <<Ferias, <<Item(E009, LA30057, Adicional), Item(E001, LA30057, Adicional)>> >> >>

Resources == { [kind |-> "missing"], [kind |-> "invalid"],
               [kind |-> "json", data |-> DataA], [kind |-> "json", data |-> DataB],
               [kind |-> "json", data |-> DataH] }

PdfRow(cat, cod, nome, sinal, valor) ==
    [Categoria |-> cat, EventoCod |-> cod, EventoNome |-> nome,
     Sinal |-> sinal, Valor |-> valor]

\* rows parse_pdf_events can emit: a canonical category, the digits of the
\* code, the sign and the signed amount
PdfRows == { PdfRow(Ferias, E009, D_FERIAS, "+", 358350000),
             PdfRow(Ferias, E009, <<>>, "+", 10000),
             PdfRow(Folha, E010, D_pagto, "-", -9999),
             PdfRow(Ferias, E001, D_pagto, "+", 0) }

TxtRow(cod, valor, desc) == [CodigoLA |-> cod, Valor |-> valor, Descricao |-> desc]

\* rows parse_txt_codes_values can emit: the code, the absolute amount and
\* the description
TxtRows == { TxtRow(LA30057, 358350000, D_FERIAS),
             TxtRow(LA30058, 300000000, D_Folha),
             TxtRow(LA99999, 358350000, D_pagto) }

\* rows of the consolidated events of app_resumos.py
Eventos == { [Categoria |-> Ferias, Codigo |-> E009, Descricao |-> D_FERIAS, Total |-> 358350000],
             [Categoria |-> Ferias, Codigo |-> E010, Descricao |-> D_pagto, Total |-> 9999],
             [Categoria |-> Folha,  Codigo |-> E001, Descricao |-> D_Folha, Total |-> 10000] }

\* rows parse_txt_lancamentos can emit: a code of at least 4 digits and a
\* non-zero absolute amount
Lancamentos == { TxtRow(LA30057, 358350000, D_FERIAS),
                 TxtRow(LA30072, 10000, D_pagto),
                 TxtRow(LA99999, 10000, D_pagto) }

\* words of ledger descriptions
Words == { <<"F","É","R","I","A","S">>,
           <<"f","e","r","i","a","s">>,
           <<"F","o","l","h","a">>,
           <<"A","d","i","a","n","t","a","m","e","n","t","o">>,
           <<"R","E","S","C","I","S","Ã","O">>,
           <<"I","N","S","S">>,
           <<"f","g","t","s">>,
           <<"I","R","R","F">>,
           <<"p","a","g","t","o">> }

RECURSIVE Phrases(_)
Phrases(n) ==
    IF n = 0 THEN {<<>>}
    ELSE Phrases(n - 1)
         \cup {IF p = <<>> THEN w ELSE p \o <<" ">> \o w : p \in Phrases(n - 1), w \in Words}

Descricoes == Phrases(MaxDescWords)

MaxParsedRows == 2

MaxPdfLines == 4

\* the second line of an event name that takes two lines: no code, no amount
LinhaNoturno == PdfLine(<<"N","O","T","U","R","N","O">>, <<>>, <<"N","O","T","U","R","N","O">>, <<>>)

\* a header line with a page number on the same height
HeaderComPagina ==
    PdfLine(<<"C","ó","d","i","g","o"," ","E","v","e","n","t","o"," ","Q","u","a","n","t","i","d","a","d","e"," ","V","a","l","o","r"," ","F","u","n","c","i","o","n","á","r","i","o","s"," ","2">>,
            <<>>, <<>>, <<>>)

\* the title of the partners' block
TituloProLabore == PdfLine(<<"P","r","ó","-","L","a","b","o","r","e">>, <<>>, <<>>, <<>>)

\* lines of a summary: two category titles, a header, three event lines, a line
\* with an amount that is no number, a footer, a line without code and a
\* line without amount
PdfLines == { PdfLine(<<"F","é","r","i","a","s">>,
                      <<>>, <<>>, <<>>),
             PdfLine(<<"F","o","l","h","a"," ","/"," ","C","o","m","p","l","e","m","e","n","t","a","r">>,
                      <<>>, <<>>, <<>>),
             PdfLine(<<"C","ó","d","i","g","o"," ","E","v","e","n","t","o"," ","Q","u","a","n","t","i","d","a","d","e"," ","V","a","l","o","r"," ","F","u","n","c","i","o","n","á","r","i","o","s">>,
                      <<>>, <<>>, <<>>),
             PdfLine(<<"+"," ","0","0","9"," ","F","É","R","I","A","S"," ","1",",","0","0"," ","3","5","8",",","3","5"," ","1">>,
                      <<"+"," ","0","0","9">>, <<"F","É","R","I","A","S">>, <<"3","5","8",",","3","5">>),
             PdfLine(<<"-"," ","0","1","0"," ","p","a","g","t","o"," ","0",",","0","0","9","9","9","9"," ","1">>,
                      <<"-"," ","0","1","0">>, <<"0","1","0"," ","p","a","g","t","o">>, <<"0",",","0","0","9","9","9","9">>),
             PdfLine(<<"0","1","1"," ","p","a","g","t","o"," ","a","b","c">>,
                      <<"0","1","1">>, <<"p","a","g","t","o">>, <<"a","b","c">>),
             PdfLine(<<"0","1","3"," ","H","O","R","A","S"," ","1","0",",","0","0"," ","1",".","2","3","4",",","5","6"," ","2">>,
                      <<"0","1","3">>, <<"H","O","R","A","S">>, <<"1","0",",","0","0"," ","1",".","2","3","4",",","5","6">>),
             PdfLine(<<"T","o","t","a","i","s"," ","3","5","8",",","3","5">>,
                      <<>>, <<>>, <<>>),
             PdfLine(<<"p","a","g","t","o"," ","1",",","0","0">>,
                      <<>>, <<"p","a","g","t","o">>, <<"1",",","0","0">>),
             PdfLine(<<"0","1","2"," ","p","a","g","t","o">>,
                      <<"0","1","2">>, <<"p","a","g","t","o">>, <<>>),
             LinhaNoturno, HeaderComPagina, TituloProLabore }

\* category labels given to canonical_categoria
RawLabels ==
    { <<"F","o","l","h","a">>,
      <<"F","O","L","H","A"," ","C","O","M","P","L","E","M","E","N","T","A","R">>,
      <<"F","o","l","h","a"," ","/"," ","C","o","m","p","l","e","m","e","n","t","a","r">>,
      <<"R","e","s","c","i","s","ã","o">>,
      <<"R","e","s","c","i","s","ã","o"," ","C","o","m","p","l","e","m","e","n","t","a","r">>,
      <<"F","o","l","h","a"," ","R","e","s","c","i","s","ã","o"," ","C","o","m","p","l","e","m","e","n","t","a","r">>,
      <<"F","é","r","i","a","s">>,
      <<"P","r","ó","-","L","a","b","o","r","e">>,
      <<"1","3">>,
      <<"D","é","c","i","m","o"," ","T","e","r","c","e","i","r","o">>,
      <<"R","e","s","c","i","s","ã","o"," ","/"," ","F","o","l","h","a">>,
      <<"F","é","r","i","a","s"," ","/"," ","R","e","s","c","i","s","ã","o">>,
      <<"A","d","i","a","n","t","a","m","e","n","t","o"," ","/"," ","O","u","t","r","o","s">>,
      <<"o","u","t","r","o","s"," ","e","v","e","n","t","o","s">>,
      <<>>,
      <<" "," ">>,
      <<"F","o","l","h","a"," ","S","ó","c","i","o","s">>,
      <<"1","3"," ","F","o","l","h","a","/","R","e","s","c","i","s","ã","o">> }

\* the calls of canonical_categoria
CanonicalCalls == { [fn |-> "canonical_categoria", raw |-> raw] : raw \in RawLabels }

MaxTxtLines == 2

\* csv rows of a ledger file: a posting with description, a code of three
\* digits, an amount that is no number, an empty amount, a zero amount, a
\* row of two fields and a negative amount with a thousands separator
TxtLines ==
    { <<<<"1">>, <<"3","0","0","5","7">>, <<"x">>, <<"3","5","8",",","3","5">>, <<>>, <<>>, <<>>, <<"F","É","R","I","A","S">>>>,
      <<<<"1">>, <<"1","2","3">>, <<"x">>, <<"1","0",",","0","0">>>>,
      <<<<"1">>, <<"3","0","0","5","8">>, <<"x">>, <<"a","b","c">>>>,
      <<<<"1">>, <<"3","0","0","5","8">>, <<"x">>, <<>>>>,
      <<<<"1">>, <<"9","9","9","9","9">>, <<"x">>, <<"0",",","0","0">>>>,
      <<<<"1">>, <<"3","0","0","5","8">>>>,
      <<<<"1">>, <<"3","0","0","7","2">>, <<"x">>, <<"-","1",".","2","3","4",",","5","6">>>> }

\* ledger files of at most n rows
RECURSIVE TxtFiles(_)
TxtFiles(n) ==
    IF n = 0 THEN {<<>>}
    ELSE TxtFiles(n - 1) \cup {Append(f, l) : f \in TxtFiles(n - 1), l \in TxtLines}

\* the calls of the two ledger extractors
ExtractorCalls ==
    { [fn |-> fn, reader |-> f] :
        fn \in {"parse_txt_codes_values", "parse_txt_lancamentos"}, f \in TxtFiles(MaxTxtLines) }

\* the configuration resource as valid JSON of another shape: the array []
\* and an object whose category holds a text
WrongShapes == { [kind |-> "json_list", data |-> <<>>],
                 [kind |-> "json_text_items", data |-> << <<Folha, <<"x">> >> >>] }

\* a configuration with two category names that have the same canonical
\* name, and an entry that has neither event code nor ledger code
FolhaComplementar ==
    <<"F","o","l","h","a"," ","C","o","m","p","l","e","m","e","n","t","a","r">>
DataE == << <<Folha, <<Item(E001, LA30057, Adicional)>> >>,
            <<FolhaComplementar, <<Item(E010, LA30058, Desconto),
                                   Item(<<"-">>, <<" ">>, Adicional)>> >> >>

\* the calls of the two loaders
LoaderCalls ==
    { [fn |-> fn, resource |-> r] :
        fn \in {"load_mapping", "load_mapeamento"},
        r \in Resources \cup WrongShapes \cup {[kind |-> "json", data |-> DataE]} }

\* tables of at most n consolidated events
RECURSIVE EventTables(_)
EventTables(n) ==
    IF n = 0 THEN {<<>>}
    ELSE EventTables(n - 1) \cup {Append(t, e) : t \in EventTables(n - 1), e \in Eventos}

\* the calls of calcular_liquidos_por_categoria, on what
\* mapear_eventos_para_lancamentos returns
LiquidosCalls ==
    { [fn |-> "calcular_liquidos_por_categoria",
       df_eventos_mapeados |-> mapear_eventos_para_lancamentos(t, d)] :
        t \in EventTables(MaxEventos), d \in {DataA, DataB} }

\* a configuration whose types are written in other ways, with an entry
\* that has no type
DataC == << <<Folha, << Item(E010, LA30058, <<" ","D","E","S","C","O","N","T","O","S"," ">>),
                        Item(E010, LA30057, Adicional),
                        [evento |-> E001, codigo_lancamento |-> LA30057],
                        Item(E009, LA30057, <<"D","e","s","c","o","n","t","a","d","o">>) >> >> >>

\* the calls of get_event_type_from_mapping
EventTypeCalls ==
    { [fn |-> "get_event_type_from_mapping", categoria |-> c, codigo_evento |-> e,
       mapeamento |-> m] :
        c \in {Ferias, Folha, Rescisao, RawFERIAS, SemCategoria},
        e \in {E001, E009, E010, <<"9">>, <<"1","0">>},
        m \in {<<>>, DataA, DataB, DataC} }

MaxResumoLines == 2

\* the three documented event lines; the amounts of the second are 1.791,51
\* in place of 197.791,51, numbers of the model staying below 2^31 millionths
LinhaComPrefixo == <<"+"," ","0","0","9"," ","F","é","r","i","a","s"," ","3","5","8",",","3","5"," ","1">>
LinhaMultiplosValores == <<"0","0","1"," ","S","a","l","á","r","i","o"," ","B","a","s","e"," ","1",".","7","9","1",",","5","1"," ","0",",","0","0"," ","0",",","0","0"," ","1",".","7","9","1",",","5","1">>
LinhaSemPrefixo == <<"0","0","9"," ","F","é","r","i","a","s"," ","3","5","8",",","3","5"," ","1">>

\* lines of the text of a summary: the three documented event lines, an
\* event of amount zero, a line of totals, the title and the end of the
\* section left out, and an event without headcount
ResumoLines ==
    { LinhaComPrefixo, LinhaMultiplosValores, LinhaSemPrefixo,
      <<"-"," ","0","1","0"," ","p","a","g","t","o"," ","0",",","0","0"," ","2">>,
      <<"T","o","t","a","l"," ","3","5","8",",","3","5"," ","1">>,
      <<"E","v","e","n","t","o","s"," ","q","u","e"," ","n","ã","o"," ","i","n","f","l","u","e","n","c","i","a","m">>,
      <<"-","-","-","-","-">>,
      <<"0","0","9"," ","F","é","r","i","a","s"," ","3","5","8",",","3","5">> }

\* texts of at most n lines
RECURSIVE ResumoTexts(_)
ResumoTexts(n) ==
    IF n = 0 THEN {<<>>}
    ELSE ResumoTexts(n - 1) \cup {Append(t, l) : t \in ResumoTexts(n - 1), l \in ResumoLines}

\* the calls of extrair_eventos_resumo_simples
ResumoCalls ==
    { [fn |-> "extrair_eventos_resumo_simples", linhas |-> t] : t \in ResumoTexts(MaxResumoLines) }

E013 == <<"0","1","3">>
LA40001 == <<"4","0","0","0","1">>
LA30051 == <<"3","0","0","5","1">>

\* a configuration with a ledger code of the denylist and a category
\* written "FOLHA SOCIOS"
DataD == << <<Ferias, <<Item(E009, LA30057, Adicional)>> >>,
            <<Folha,  <<Item(E013, LA30072, Desconto)>> >>,
            <<<<"F","O","L","H","A"," ","S","O","C","I","O","S">>, <<Item(E001, LA40001, Adicional)>> >> >>

\* summary rows and postings for the composition report
CompPdfRows == { PdfRow(Ferias, E009, D_FERIAS, "+", 358350000),
                 PdfRow(Folha, E013, D_pagto, "-", -10000000),
                 PdfRow(FolhaSocios, E001, D_pagto, "+", 500000000) }

CompTxtRows == { TxtRow(LA30057, 358350000, D_FERIAS),
                 TxtRow(LA30072, 10000000, D_pagto),
                 TxtRow(LA40001, 500000000, D_pagto),
                 TxtRow(LA30051, 5000000, D_pagto),
                 TxtRow(LA30058, 10000, D_pagto) }

\* tables of at most n rows of S
RECURSIVE Tables(_, _)
Tables(S, n) ==
    IF n = 0 THEN {<<>>}
    ELSE Tables(S, n - 1) \cup {Append(t, r) : t \in Tables(S, n - 1), r \in S}

\* the calls of composition_report_by_la, with the mapping load_mapping gives
CompositionCalls ==
    { [fn |-> "composition_report_by_la", df_pdf_events |-> p, df_txt |-> t,
       mapping |-> load_mapping([kind |-> "json", data |-> d])] :
        p \in Tables(CompPdfRows, MaxPdfRows), t \in Tables(CompTxtRows, MaxTxtRows),
        d \in {DataA, DataD} }

\* a configuration whose FGTS section lists loan codes next to FGTS codes
LA30059 == <<"3","0","0","5","9">>
LA30074 == <<"3","0","0","7","4">>
LA030075 == <<"0","3","0","0","7","5">>
DataF == << <<FGTS, << Item(E001, LA30051, Adicional), Item(E009, LA30059, Desconto),
                       Item(E010, LA030075, Adicional), Item(E013, LA30074, Desconto),
                       Item(E013, LA30074, Adicional) >> >> >>

\* a FGTS section with an entry that has no type
DataG == << <<FGTS, << Item(E001, LA30051, Adicional),
                       [evento |-> E009, codigo_lancamento |-> LA30074] >> >> >>

\* ledger postings: loan codes as written and with a leading zero, FGTS
\* codes, and a code of neither
FgtsTxtRows ==
    { [CodigoLA |-> la, Valor |-> v] :
        la \in {LA30074, LA030075, LA30051, LA30059, LA99999},
        v \in {100 * Scale, -(50 * Scale)} }

\* the calls of confrontar_fgts and calcular_emprestimos_fgts
FgtsCalls ==
    { [fn |-> "confrontar_fgts", fgts_resumo_geral |-> g, df_lancamentos |-> t,
       mapeamento |-> m] :
        g \in {0, 500 * Scale}, t \in Tables(FgtsTxtRows, MaxLancamentos),
        m \in {DataA, DataF, DataG} }
    \cup
    { [fn |-> "calcular_emprestimos_fgts", df_lancamentos |-> t] :
        t \in Tables(FgtsTxtRows, MaxLancamentos) }

MaxSociosLines == 4

\* lines of the general summary: the start of the partners' section, its
\* two value lines, its two total lines, a line of another section and a
\* pro-labore line of a later table
SociosLines ==
    { <<"V","a","l","o","r","e","s"," ","P","a","g","o","s"," ","a","o","s"," ","S","ó","c","i","o","s"," ","/"," ","A","u","t","ô","n","o","m","o","s">>,
      <<"0","0","3"," ","P","R","O"," ","L","A","B","O","R","E"," ","5","0","0",",","0","0"," ","1","0","0",",","0","0">>,
      <<"0","1","3"," ","I","N","S","S"," ","5","5",",","0","0"," ","1","1",",","0","0">>,
      <<"T","O","T","A","L"," ","D","E"," ","S","Ó","C","I","O","S"," ","/"," ","A","U","T","Ô","N","O","M","O","S"," ","4","4","5",",","0","0"," ","8","9",",","0","0">>,
      <<"T","O","T","A","L"," ","L","Í","Q","U","I","D","O"," ","A"," ","P","A","G","A","R"," ","4","4","5",",","0","0"," ","8","9",",","0","0">>,
      <<"0","0","1"," ","S","A","L","A","R","I","O"," ","1","0",",","0","0">>,
      <<"0","0","3"," ","P","R","O"," ","L","A","B","O","R","E"," ","1",",","0","0"," ","2",",","0","0">> }

\* the calls of extract_socios_autonomos_resumo_geral
SociosCalls ==
    { [fn |-> "extract_socios_autonomos_resumo_geral", lines |-> t] :
        t \in Tables(SociosLines, MaxSociosLines) }

----------------------------------------------------------------------------
(* State                                                                   *)

VARIABLES
    pc,                  \* position in the run
    resource,            \* the configuration resource mapeamento_dp.json
    mapping,             \* app.py: result of load_mapping
    df_pdf_events,       \* app.py: rows of parse_pdf_events
    df_txt,              \* app.py: rows of parse_txt_codes_values
    pdf_sum,             \* app.py: sum_pdf_by_categoria
    txt_sum,             \* app.py: sum_txt_by_categoria, totals
    not_mapped,          \* app.py: sum_txt_by_categoria, postings without category
    report_cat,          \* app.py: compare_by_categoria
    report_ev,           \* app.py: compare_by_event, the triple of reports
    report_la,           \* app.py: compare_by_la
    mapeamento,          \* app_resumos.py: result of load_mapeamento
    df_eventos,          \* app_resumos.py: consolidated events
    df_lancamentos,      \* app_resumos.py: rows of parse_txt_lancamentos
    df_eventos_mapeados, \* app_resumos.py: mapear_eventos_para_lancamentos
    df_confronto,        \* app_resumos.py: realizar_confronto
    descricao,           \* a ledger description given to classify_txt_by_description
    categoria_desc,      \* its classification
    current_cat,         \* parse_pdf_events: category of the open block
    pending_cat,         \* parse_pdf_events: category title waiting for a header
    centers,             \* parse_pdf_events: column centers, None as FALSE
    in_block,            \* parse_pdf_events: inside a data block
    rows,                \* parse_pdf_events: rows emitted so far
    lines_read,          \* parse_pdf_events: the lines and page breaks passed so far
    call,                \* a function of the program and its arguments
    ret                  \* what the call returned

app_vars == <<mapping, df_pdf_events, df_txt, pdf_sum, txt_sum, not_mapped,
              report_cat, report_ev, report_la>>

resumos_vars == <<mapeamento, df_eventos, df_lancamentos, df_eventos_mapeados,
                  df_confronto>>

desc_vars == <<descricao, categoria_desc>>

parse_vars == <<current_cat, pending_cat, centers, in_block, rows, lines_read>>

call_vars == <<call, ret>>

vars == <<pc, resource, app_vars, resumos_vars, desc_vars, parse_vars, call_vars>>

InitData ==
    /\ mapping = <<>>
    /\ df_pdf_events = <<>>
    /\ df_txt = <<>>
    /\ pdf_sum = <<>>
    /\ txt_sum = <<>>
    /\ not_mapped = <<>>
    /\ report_cat = <<>>
    /\ report_ev = <<(<<>>), (<<>>), (<<>>)>>
    /\ report_la = <<>>
    /\ mapeamento = <<>>
    /\ df_eventos = <<>>
    /\ df_lancamentos = <<>>
    /\ df_eventos_mapeados = <<>>
    /\ df_confronto = <<>>
    /\ categoria_desc = <<>>
    /\ current_cat = SemCategoria
    /\ pending_cat = None
    /\ centers = FALSE
    /\ in_block = FALSE
    /\ rows = <<>>
    /\ lines_read = <<>>
    /\ ret = NoCall

Init ==
    /\ pc = "start"
    /\ resource \in Resources
    /\ descricao = <<>>
    /\ call = NoCall
    /\ InitData

----------------------------------------------------------------------------
(* app.py                                                                  *)

\* mapping = load_mapping()
LoadMapping ==
    /\ pc = "start"
    /\ mapping' = load_mapping(resource)
    /\ pc' = "pdf"
    /\ UNCHANGED <<resource, df_pdf_events, df_txt, pdf_sum, txt_sum, not_mapped,
                   report_cat, report_ev, report_la, resumos_vars, desc_vars, parse_vars, call_vars>>

\* parse_pdf_events appends one row
ExtractEvent(row) ==
    /\ pc = "pdf"
    /\ Len(df_pdf_events) < MaxPdfRows
    /\ df_pdf_events' = Append(df_pdf_events, row)
    /\ UNCHANGED <<pc, resource, mapping, df_txt, pdf_sum, txt_sum, not_mapped,
                   report_cat, report_ev, report_la, resumos_vars, desc_vars, parse_vars, call_vars>>

\* parse_txt_codes_values appends one row
ExtractPosting(row) ==
    /\ pc \in {"pdf", "txt"}
    /\ Len(df_txt) < MaxTxtRows
    /\ df_txt' = Append(df_txt, row)
    /\ pc' = "txt"
    /\ UNCHANGED <<resource, mapping, df_pdf_events, pdf_sum, txt_sum, not_mapped,
                   report_cat, report_ev, report_la, resumos_vars, desc_vars, parse_vars, call_vars>>

\* compare_by_event and compare_by_la have no caller in app.py; they are
\* applied to the parsed inputs, whatever these are
CompareByEvent ==
    /\ pc \in {"pdf", "txt"}
    /\ report_ev' = compare_by_event(df_pdf_events, df_txt, mapping)
    /\ pc' = "by_event"
    /\ UNCHANGED <<resource, mapping, df_pdf_events, df_txt, pdf_sum, txt_sum,
                   not_mapped, report_cat, report_la, resumos_vars, desc_vars, parse_vars, call_vars>>

CompareByLa ==
    /\ pc = "by_event"
    /\ report_la' = compare_by_la(df_pdf_events, df_txt, mapping)
    /\ pc' = "by_la"
    /\ UNCHANGED <<resource, mapping, df_pdf_events, df_txt, pdf_sum, txt_sum,
                   not_mapped, report_cat, report_ev, resumos_vars, desc_vars, parse_vars, call_vars>>

\* the script goes on only with a mapping, events and postings
CanAggregate == mapping # <<>> /\ df_pdf_events # <<>> /\ df_txt # <<>>

\* st.stop()
Stop ==
    /\ pc = "by_la"
    /\ ~CanAggregate
    /\ pc' = "stopped"
    /\ UNCHANGED <<resource, app_vars, resumos_vars, desc_vars, parse_vars, call_vars>>

\* pdf_sum = sum_pdf_by_categoria(df_pdf_events)
SumPdfByCategoria ==
    /\ pc = "by_la"
    /\ CanAggregate
    /\ pdf_sum' = sum_pdf_by_categoria(df_pdf_events)
    /\ pc' = "pdf_sum"
    /\ UNCHANGED <<resource, mapping, df_pdf_events, df_txt, txt_sum, not_mapped,
                   report_cat, report_ev, report_la, resumos_vars, desc_vars, parse_vars, call_vars>>

\* txt_sum, not_mapped = sum_txt_by_categoria(df_txt, mapping)
SumTxtByCategoria ==
    /\ pc = "pdf_sum"
    /\ txt_sum' = sum_txt_by_categoria(df_txt, mapping)[1]
    /\ not_mapped' = sum_txt_by_categoria(df_txt, mapping)[2]
    /\ pc' = "txt_sum"
    /\ UNCHANGED <<resource, mapping, df_pdf_events, df_txt, pdf_sum,
                   report_cat, report_ev, report_la, resumos_vars, desc_vars, parse_vars, call_vars>>

\* report_cat = compare_by_categoria(pdf_sum, txt_sum), unless both are empty
CompareByCategoria ==
    /\ pc = "txt_sum"
    /\ report_cat' = IF pdf_sum # <<>> \/ txt_sum # <<>>
                     THEN compare_by_categoria(pdf_sum, txt_sum)
                     ELSE report_cat
    /\ pc' = "done"
    /\ UNCHANGED <<resource, mapping, df_pdf_events, df_txt, pdf_sum, txt_sum,
                   not_mapped, report_ev, report_la, resumos_vars, desc_vars, parse_vars, call_vars>>

----------------------------------------------------------------------------
(* app_resumos.py                                                          *)

\* one event of the consolidated summaries
ExtrairEvento(row) ==
    /\ pc \in {"start", "r_eventos"}
    /\ Len(df_eventos) < MaxEventos
    /\ df_eventos' = Append(df_eventos, row)
    /\ pc' = "r_eventos"
    /\ UNCHANGED <<resource, app_vars, mapeamento, df_lancamentos,
                   df_eventos_mapeados, df_confronto, desc_vars, parse_vars, call_vars>>

\* mapeamento = load_mapeamento(), only when there are events
LoadMapeamento ==
    /\ pc = "r_eventos"
    /\ df_eventos # <<>>
    /\ mapeamento' = load_mapeamento(resource)
    /\ pc' = "r_txt"
    /\ UNCHANGED <<resource, app_vars, df_eventos, df_lancamentos,
                   df_eventos_mapeados, df_confronto, desc_vars, parse_vars, call_vars>>

\* parse_txt_lancamentos appends one row
ParseLancamento(row) ==
    /\ pc = "r_txt"
    /\ Len(df_lancamentos) < MaxLancamentos
    /\ df_lancamentos' = Append(df_lancamentos, row)
    /\ UNCHANGED <<pc, resource, app_vars, mapeamento, df_eventos,
                   df_eventos_mapeados, df_confronto, desc_vars, parse_vars, call_vars>>

\* df_eventos_mapeados = mapear_eventos_para_lancamentos(...), with a
\* mapping and postings
MapearEventos ==
    /\ pc = "r_txt"
    /\ mapeamento # <<>>
    /\ df_lancamentos # <<>>
    /\ df_eventos_mapeados' = mapear_eventos_para_lancamentos(df_eventos, mapeamento)
    /\ pc' = "r_mapped"
    /\ UNCHANGED <<resource, app_vars, mapeamento, df_eventos, df_lancamentos,
                   df_confronto, desc_vars, parse_vars, call_vars>>

\* df_confronto = realizar_confronto(df_eventos_mapeados, df_lancamentos)
RealizarConfronto ==
    /\ pc = "r_mapped"
    /\ df_confronto' = realizar_confronto(df_eventos_mapeados, df_lancamentos)
    /\ pc' = "r_done"
    /\ UNCHANGED <<resource, app_vars, mapeamento, df_eventos, df_lancamentos,
                   df_eventos_mapeados, desc_vars, parse_vars, call_vars>>

Next ==
    \/ LoadMapping
    \/ \E row \in PdfRows : ExtractEvent(row)
    \/ \E row \in TxtRows : ExtractPosting(row)
    \/ CompareByEvent
    \/ CompareByLa
    \/ Stop
    \/ SumPdfByCategoria
    \/ SumTxtByCategoria
    \/ CompareByCategoria
    \/ \E row \in Eventos : ExtrairEvento(row)
    \/ LoadMapeamento
    \/ \E row \in Lancamentos : ParseLancamento(row)
    \/ MapearEventos
    \/ RealizarConfronto

Spec == Init /\ [][Next]_vars

----------------------------------------------------------------------------
(* classify_txt_by_description on its own                                  *)

InitClassify ==
    /\ pc = "desc"
    /\ resource = [kind |-> "missing"]
    /\ descricao \in Descricoes
    /\ call = NoCall
    /\ InitData

Classify ==
    /\ pc = "desc"
    /\ categoria_desc' = classify_txt_by_description(descricao)
    /\ pc' = "classified"
    /\ UNCHANGED <<resource, app_vars, resumos_vars, descricao, parse_vars, call_vars>>

NextClassify == Classify

SpecClassify == InitClassify /\ [][NextClassify]_vars

----------------------------------------------------------------------------
(* parse_pdf_events on its own                                             *)

InitParse ==
    /\ pc = "lines"
    /\ resource = [kind |-> "missing"]
    /\ descricao = <<>>
    /\ call = NoCall
    /\ InitData

\* the body of the loop over the lines of the pages
ParseLine(line) ==
    LET codigo_col    == Strip(line.codigo)
        evento_col    == Strip(line.evento)
        valor_txt     == Strip(line.valor)
        sinal         == sinal_of(codigo_col)
        codigo_digits == codigo_digits_of(codigo_col)
        parsed        == parse_brl_decimal(valor_token_of(valor_txt))
    IN  /\ pc = "lines"
        /\ Len(rows) < MaxParsedRows
        /\ Len(lines_read) < MaxPdfLines
        /\ lines_read' = Append(lines_read, line)
        /\ IF is_category_title(line)
           THEN /\ pending_cat' = canonical_categoria(line.text)
                /\ centers' = exit_block(in_block).centers
                /\ in_block' = exit_block(in_block).in_block
                /\ UNCHANGED <<current_cat, rows>>
           ELSE IF find_header_centers(line)
           THEN /\ centers' = TRUE
                /\ current_cat' = commit_pending(pending_cat, current_cat)
                /\ pending_cat' = None
                /\ in_block' = TRUE
                /\ UNCHANGED rows
           ELSE IF ~(centers /\ in_block)
           THEN UNCHANGED <<current_cat, pending_cat, centers, in_block, rows>>
           ELSE IF is_footer(line)
           THEN /\ centers' = exit_block(in_block).centers
                /\ in_block' = exit_block(in_block).in_block
                /\ UNCHANGED <<current_cat, pending_cat, rows>>
           ELSE IF valor_txt = <<>>
           THEN UNCHANGED <<current_cat, pending_cat, centers, in_block, rows>>
           ELSE IF codigo_digits = <<>>
           THEN /\ centers' = exit_block(in_block).centers
                /\ in_block' = exit_block(in_block).in_block
                /\ UNCHANGED <<current_cat, pending_cat, rows>>
           ELSE IF ~parsed.ok
           THEN UNCHANGED <<current_cat, pending_cat, centers, in_block, rows>>
           ELSE /\ rows' = Append(rows, PdfRow(current_cat, codigo_digits,
                                               evento_clean_of(evento_col), sinal,
                                               apply_sinal(sinal, parsed.value)))
                /\ UNCHANGED <<current_cat, pending_cat, centers, in_block>>
        /\ UNCHANGED <<pc, resource, app_vars, resumos_vars, desc_vars, call_vars>>

\* the loop over the pages goes to the next page: words and lines are taken
\* from it, the extractor state stays
NextPage ==
    /\ pc = "lines"
    /\ Len(rows) < MaxParsedRows
    /\ Len(lines_read) < MaxPdfLines
    /\ lines_read' = Append(lines_read, PageBreak)
    /\ UNCHANGED <<current_cat, pending_cat, centers, in_block, rows>>
    /\ UNCHANGED <<pc, resource, app_vars, resumos_vars, desc_vars, call_vars>>

NextParse ==
    \/ \E line \in PdfLines : ParseLine(line)
    \/ NextPage

SpecParse == InitParse /\ [][NextParse]_vars

----------------------------------------------------------------------------
(* Functions called on their own                                           *)

\* the calls made
Calls == CanonicalCalls \cup ExtractorCalls \cup LoaderCalls \cup LiquidosCalls
         \cup EventTypeCalls \cup ResumoCalls \cup CompositionCalls \cup FgtsCalls
         \cup SociosCalls

InitCalls ==
    /\ pc = "call"
    /\ resource = [kind |-> "missing"]
    /\ descricao = <<>>
    /\ call \in Calls
    /\ InitData

\* what stays as it is when a function returns
ReturnFrame == UNCHANGED <<resource, app_vars, resumos_vars, desc_vars, parse_vars, call>>

CallCanonicalCategoria ==
    /\ pc = "call"
    /\ call.fn = "canonical_categoria"
    /\ ret' = [fn |-> call.fn, value |-> canonical_categoria(call.raw)]
    /\ pc' = "returned"
    /\ ReturnFrame

CallParseTxtCodesValues ==
    /\ pc = "call"
    /\ call.fn = "parse_txt_codes_values"
    /\ ret' = [fn |-> call.fn, value |-> parse_txt_codes_values(call.reader)]
    /\ pc' = "returned"
    /\ ReturnFrame

CallParseTxtLancamentos ==
    /\ pc = "call"
    /\ call.fn = "parse_txt_lancamentos"
    /\ ret' = [fn |-> call.fn, value |-> parse_txt_lancamentos(call.reader)]
    /\ pc' = "returned"
    /\ ReturnFrame

CallLoadMapping ==
    /\ pc = "call"
    /\ call.fn = "load_mapping"
    /\ ret' = [fn |-> call.fn] @@ load_mapping_outcome(call.resource)
    /\ pc' = "returned"
    /\ ReturnFrame

CallLoadMapeamento ==
    /\ pc = "call"
    /\ call.fn = "load_mapeamento"
    /\ ret' = [fn |-> call.fn] @@ modernos_load_mapeamento(call.resource)
    /\ pc' = "returned"
    /\ ReturnFrame

CallCalcularLiquidos ==
    /\ pc = "call"
    /\ call.fn = "calcular_liquidos_por_categoria"
    /\ ret' = [fn |-> call.fn,
               value |-> calcular_liquidos_por_categoria(call.df_eventos_mapeados)]
    /\ pc' = "returned"
    /\ ReturnFrame

CallGetEventType ==
    /\ pc = "call"
    /\ call.fn = "get_event_type_from_mapping"
    /\ ret' = [fn |-> call.fn,
               value |-> get_event_type_from_mapping(call.categoria, call.codigo_evento,
                                                     call.mapeamento)]
    /\ pc' = "returned"
    /\ ReturnFrame

CallExtrairEventos ==
    /\ pc = "call"
    /\ call.fn = "extrair_eventos_resumo_simples"
    /\ ret' = [fn |-> call.fn, value |-> extrair_eventos_resumo_simples(call.linhas)]
    /\ pc' = "returned"
    /\ ReturnFrame

CallCompositionReport ==
    /\ pc = "call"
    /\ call.fn = "composition_report_by_la"
    /\ ret' = [fn |-> call.fn,
               value |-> composition_report_by_la(call.df_pdf_events, call.df_txt,
                                                  call.mapping)]
    /\ pc' = "returned"
    /\ ReturnFrame

\* app.py shows the report that composition_report_by_la returned
ShowCompositionReport ==
    /\ pc = "returned"
    /\ ret.fn = "composition_report_by_la"
    /\ ret' = [fn |-> "report_comp_display",
               value |-> report_comp_display(ret.value),
               total_las |-> total_las(ret.value),
               total_ok_la |-> total_ok_la(ret.value),
               total_divergencias_la |-> total_divergencias_la(ret.value)]
    /\ pc' = "shown"
    /\ ReturnFrame

CallConfrontarFgts ==
    /\ pc = "call"
    /\ call.fn = "confrontar_fgts"
    /\ ret' = [fn |-> call.fn,
               value |-> confrontar_fgts(call.fgts_resumo_geral, call.df_lancamentos,
                                         call.mapeamento)]
    /\ pc' = "returned"
    /\ ReturnFrame

CallCalcularEmprestimosFgts ==
    /\ pc = "call"
    /\ call.fn = "calcular_emprestimos_fgts"
    /\ ret' = [fn |-> call.fn, value |-> calcular_emprestimos_fgts(call.df_lancamentos)]
    /\ pc' = "returned"
    /\ ReturnFrame

CallExtractSocios ==
    /\ pc = "call"
    /\ call.fn = "extract_socios_autonomos_resumo_geral"
    /\ ret' = [fn |-> call.fn, value |-> extract_socios_autonomos_resumo_geral(call.lines)]
    /\ pc' = "returned"
    /\ ReturnFrame

NextCalls ==
    \/ CallCanonicalCategoria
    \/ CallParseTxtCodesValues
    \/ CallParseTxtLancamentos
    \/ CallLoadMapping
    \/ CallLoadMapeamento
    \/ CallCalcularLiquidos
    \/ CallGetEventType
    \/ CallExtrairEventos
    \/ CallCompositionReport
    \/ ShowCompositionReport
    \/ CallConfrontarFgts
    \/ CallCalcularEmprestimosFgts
    \/ CallExtractSocios

SpecCalls == InitCalls /\ [][NextCalls]_vars

\* the call of fn has returned
Returned(fn) == pc = "returned" /\ ret.fn = fn

----------------------------------------------------------------------------
(* Properties                                                              *)

\* positions of the run at which the reports of app.py are computed
AfterByEvent == pc \in {"by_event", "by_la", "pdf_sum", "txt_sum", "done", "stopped"}
AfterSumPdf  == pc \in {"pdf_sum", "txt_sum", "done"}
AfterSumTxt  == pc \in {"txt_sum", "done"}

\* C1: in the reports that carry a status (compare_by_categoria,
\* realizar_confronto) a row is OK exactly when the absolute value of its
\* difference is below one cent (10000 millionths): a difference of exactly
\* 0.01 is not OK, one of 0.009999 is OK.
C1_StatusIffBelowOneCent ==
    /\ \A r \in Range(report_cat) :
          /\ r.Status = StatusOK <=> (r.Diferenca < 10000 /\ r.Diferenca > -10000)
          /\ r.Status \in {StatusOK, StatusDivergente}
    /\ \A r \in Range(df_confronto) :
          /\ r.Status = StatusOK <=> (r.Diferenca < 10000 /\ r.Diferenca > -10000)
          /\ r.Status \in {StatusOK, StatusApenasTXT, StatusApenasPDF, StatusDivergencia}

\* a category report with a row at exactly one cent, divergent, and a row
\* at 0.009999, OK
C1_Witness ==
    /\ pc = "done"
    /\ \E r \in Range(report_cat) : r.Diferenca = 10000 /\ r.Status = StatusDivergente
    /\ \E r \in Range(report_cat) : r.Diferenca = -9999 /\ r.Status = StatusOK

\* the same two boundary rows in the report of realizar_confronto
C1_WitnessConfronto ==
    /\ pc = "r_done"
    /\ \E r \in Range(df_confronto) : r.Diferenca = 10000 /\ r.Status # StatusOK
    /\ \E r \in Range(df_confronto) : r.Diferenca = 9999 /\ r.Status = StatusOK

\* C2: in every row of the three reconciliation views of app.py the stored
\* difference is the stored summary value minus the stored ledger value,
\* a missing side being stored as 0.
C2_DifferenceIsPdfMinusTxt ==
    /\ \A r \in Range(report_cat) : r.Diferenca = r.LiquidoPDF - r.LiquidoTXT
    /\ \A r \in Range(report_ev[1]) : r.Diferenca = r.ValorPDF - r.ValorTXT
    /\ \A r \in Range(report_la) : r.Diferenca = r.ValorPDF_LA - r.ValorTXT_LA

\* the three views computed, with a sub-cent difference between two
\* non-zero values at event level and a one-sided row at ledger-code level
C2_Witness ==
    /\ pc = "done"
    /\ \E r \in Range(report_ev[1]) :
          r.ValorPDF # 0 /\ r.ValorTXT # 0 /\ r.Diferenca % 10000 # 0
    /\ \E r \in Range(report_la) : r.ValorPDF_LA = 0 /\ r.ValorTXT_LA # 0
    /\ \E r \in Range(report_cat) : r.Diferenca # 0

\* C3: Scenario A.  One summary row (Ferias, event 009, '+', 358.35), a
\* mapping that links event 009 to ledger code 30057 as Adicional and one
\* posting (30057, 358.35, 'FERIAS' with its accent) give a category row for
\* Ferias with summary 358.35, ledger 358.35, difference 0 and status OK.
C3_ScenarioA ==
    ( /\ pc = "done"
      /\ resource = [kind |-> "json", data |-> DataA]
      /\ df_pdf_events = << PdfRow(Ferias, E009, D_FERIAS, "+", 358350000) >>
      /\ df_txt = << TxtRow(LA30057, 358350000, D_FERIAS) >> )
    => \E r \in Range(report_cat) :
          /\ r.Categoria = Ferias
          /\ r.LiquidoPDF = 358350000
          /\ r.LiquidoTXT = 358350000
          /\ r.Diferenca = 0
          /\ r.Status = StatusOK

\* the ledger codes that have an entry in the mapping
MappedCodes == {x.it.codigo_lancamento : x \in Range(mapping_items(mapping))} \ {<<>>}

\* C4: a posting whose ledger code has no entry in the mapping is in the
\* not-mapped output of sum_txt_by_categoria and adds to no category total:
\* the totals are those of the postings whose code is mapped.
C4_UnmappedCodeSegregated ==
    AfterSumTxt =>
        /\ \A r \in Range(df_txt) :
              r.CodigoLA \notin MappedCodes => r \in Range(not_mapped)
        /\ txt_sum = sum_txt_by_categoria(
                         SelectSeq(df_txt, LAMBDA r : r.CodigoLA \in MappedCodes),
                         mapping)[1]

\* the flow type the configuration resource declares for a ledger code
\* (its last entry), Adicional when it declares none
DeclaredTipo(la) ==
    LET its  == IF resource.kind = "json" THEN mapping_items(resource.data) ELSE <<>>
        same == SelectSeq(its, LAMBDA x :
                    RemoveAll(Strip(x.it.codigo_lancamento), <<".", "0">>) = la)
    IN  IF same = <<>> THEN Adicional ELSE same[Len(same)].it.tipo

\* the sum of the amounts of the postings of a category whose declared flow
\* type is tipo
DeclaredSum(cat, tipo) ==
    SeqSum(MapRows(
        SelectSeq(df_txt, LAMBDA r :
            /\ canonical_categoria(classify_txt_by_description(r.Descricao)) = cat
            /\ DeclaredTipo(r.CodigoLA) = tipo),
        LAMBDA r : r.Valor))

\* C5: with the mapping of load_mapping, the postings of a category whose
\* code is declared Desconto are summed negatively into Descontos, those
\* declared Adicional or not declared positively into Adicionais.
C5_SignedByDeclaredTipo ==
    AfterSumTxt =>
        \A r \in Range(txt_sum) :
            /\ r.Descontos = 0 - DeclaredSum(r.Categoria, Desconto)
            /\ r.Adicionais = DeclaredSum(r.Categoria, Adicional)

HasKeyword(k) == Contains(normalize_text(descricao), k)

HasTaxKeyword == HasKeyword(k_inss) \/ HasKeyword(k_fgts) \/ HasKeyword(k_irrf)

\* C6: a description with one of the keywords ferias, adiantamento, folha,
\* rescisao (and no other classification keyword) is classified Ferias,
\* Adiantamento, Folha, Rescisao; one with no classification keyword is
\* Sem Mapeamento; 'FERIAS' written with its accent is Ferias.
C6_KeywordClassification ==
    pc = "classified" =>
        LET only(k) == /\ ~HasTaxKeyword
                       /\ \A j \in {k_ferias, k_adiantamento, k_folha, k_rescisao} :
                             HasKeyword(j) <=> j = k
        IN  /\ only(k_ferias) => categoria_desc = Ferias
            /\ only(k_adiantamento) => categoria_desc = Adiantamento
            /\ only(k_folha) => categoria_desc = Folha
            /\ only(k_rescisao) => categoria_desc = Rescisao
            /\ ( /\ ~HasTaxKeyword
                 /\ \A j \in {k_ferias, k_adiantamento, k_folha, k_rescisao} :
                       ~HasKeyword(j) )
               => categoria_desc = SemMapeamento
            /\ descricao = D_FERIAS => categoria_desc = Ferias

\* C7: a description with one of the tax keywords inss, fgts, irrf is
\* classified Impostos, whatever other keyword it has.
C7_TaxKeywordsFirst ==
    (pc = "classified" /\ HasTaxKeyword) => categoria_desc = Impostos

\* the ledger codes the mapping gives to an event of a category
MappedLas(cat, ev) ==
    {it.codigo_lancamento : it \in {i \in Range(DictGet(mapping, cat, <<>>)) :
                                        i.evento = ev}} \ {<<>>}

\* C8: every (category, event code) pair of the summary rows has a row in
\* the report of compare_by_event, and a row without mapped ledger code, or
\* whose ledger code has no posting, has the ledger value 0.
C8_EveryEventRetained ==
    AfterByEvent =>
        /\ \A r \in Range(df_pdf_events) :
              \E q \in Range(report_ev[1]) :
                  q.Categoria = r.Categoria /\ q.EventoCod = r.EventoCod
        /\ \A q \in Range(report_ev[1]) :
              (\/ q.CodigoLA = NaN
               \/ \A t \in Range(df_txt) : t.CodigoLA # q.CodigoLA)
              => q.ValorTXT = 0

\* postings exist, one event has no mapping and another is mapped to a
\* ledger code without posting
C8_Witness ==
    /\ pc = "by_event"
    /\ df_txt # <<>>
    /\ \E q \in Range(report_ev[1]) : q.CodigoLA = NaN /\ q.ValorTXT = 0
    /\ \E q \in Range(report_ev[1]) :
          /\ q.CodigoLA # NaN
          /\ \A t \in Range(df_txt) : t.CodigoLA # q.CodigoLA
          /\ q.ValorTXT = 0

\* the sum of the signed amounts of the summary rows of an event
EventTotal(cat, ev) ==
    SeqSum(MapRows(SelectSeq(df_pdf_events,
                       LAMBDA r : r.Categoria = cat /\ r.EventoCod = ev),
                   LAMBDA r : r.Valor))

\* C9: for each (category, event code) pair of the summary and each ledger
\* code mapped to it, the report of compare_by_event has exactly one row,
\* whose ValorPDF is the sum of all the summary rows of the pair; a pair
\* without mapping has exactly one row, with that sum.
C9_SummedBeforeJoin ==
    AfterByEvent =>
        \A r \in Range(df_pdf_events) :
            LET las  == IF MappedLas(r.Categoria, r.EventoCod) = {} THEN {NaN}
                        ELSE MappedLas(r.Categoria, r.EventoCod)
                found == SelectSeq(report_ev[1],
                            LAMBDA q : q.Categoria = r.Categoria
                                       /\ q.EventoCod = r.EventoCod)
            IN  /\ Len(found) = Cardinality(las)
                /\ \A la \in las :
                      \E i \in DOMAIN found :
                          /\ found[i].CodigoLA = la
                          /\ found[i].ValorPDF = EventTotal(r.Categoria, r.EventoCod)

\* two summary lines of one event that is mapped to two ledger codes
C9_Witness ==
    /\ pc = "by_event"
    /\ Len(df_pdf_events) = 2
    /\ df_pdf_events[1] # df_pdf_events[2]
    /\ df_pdf_events[1].Categoria = df_pdf_events[2].Categoria
    /\ df_pdf_events[1].EventoCod = df_pdf_events[2].EventoCod
    /\ Cardinality(MappedLas(df_pdf_events[1].Categoria, df_pdf_events[1].EventoCod)) = 2
    /\ Len(report_ev[1]) = 2

\* C10: every category with a summary row has exactly one row in the
\* result of sum_pdf_by_categoria, whose Liquido is the sum of the signed
\* amounts of the category, Adicionais the sum of the positive ones and
\* Descontos the sum of the negative ones.
C10_OneTotalPerCategory ==
    AfterSumPdf =>
        \A r \in Range(df_pdf_events) :
            LET found == SelectSeq(pdf_sum, LAMBDA t : t.Categoria = r.Categoria)
                of_cat == SelectSeq(df_pdf_events, LAMBDA x : x.Categoria = r.Categoria)
                total(sel) == SeqSum(MapRows(sel, LAMBDA x : x.Valor))
            IN  /\ Len(found) = 1
                /\ found[1].Liquido = total(of_cat)
                /\ found[1].Adicionais = total(SelectSeq(of_cat, LAMBDA x : x.Sinal = "+"))
                /\ found[1].Descontos = total(SelectSeq(of_cat, LAMBDA x : x.Sinal = "-"))
                /\ found[1].Descontos <= 0

\* C11: compare_by_categoria is an outer join: one row for every category
\* of the summary totals or of the ledger totals, no other row, and the net
\* value of a source that lacks the category is 0.
C11_OuterJoinByCategory ==
    pc = "done" /\ (pdf_sum # <<>> \/ txt_sum # <<>>) =>
        LET cats(df) == {r.Categoria : r \in Range(df)}
            net(df, cat) == IF cat \in cats(df)
                            THEN (CHOOSE r \in Range(df) : r.Categoria = cat).Liquido
                            ELSE 0
        IN  /\ \A cat \in cats(pdf_sum) \cup cats(txt_sum) :
                   Len(SelectSeq(report_cat, LAMBDA r : r.Categoria = cat)) = 1
            /\ \A r \in Range(report_cat) :
                   /\ r.Categoria \in cats(pdf_sum) \cup cats(txt_sum)
                   /\ r.LiquidoPDF = net(pdf_sum, r.Categoria)
                   /\ r.LiquidoTXT = net(txt_sum, r.Categoria)

\* a report with a category of the summary alone and one of the ledger alone
C11_Witness ==
    /\ pc = "done"
    /\ \E r \in Range(report_cat) :
           /\ r.Categoria \notin {t.Categoria : t \in Range(txt_sum)}
           /\ r.LiquidoPDF # 0 /\ r.LiquidoTXT = 0
    /\ \E r \in Range(report_cat) :
           /\ r.Categoria \notin {t.Categoria : t \in Range(pdf_sum)}
           /\ r.LiquidoTXT # 0 /\ r.LiquidoPDF = 0

\* C12 as stated: every row emitted by parse_pdf_events stores a non-negative
\* amount, the sign being kept only in the sign field.
C12_AmountNonNegative ==
    \A i \in DOMAIN rows : rows[i].Valor >= 0

\* C12: every row emitted by parse_pdf_events stores the amount with the
\* sign of its sign field applied: zero or less under "-", zero or more under
\* "+", and the sign field is one of the two.
C12_AmountCarriesSign ==
    \A i \in DOMAIN rows :
        /\ rows[i].Sinal \in {"+", "-"}
        /\ rows[i].Sinal = "-" => rows[i].Valor <= 0
        /\ rows[i].Sinal = "+" => rows[i].Valor >= 0

\* a row of a "-" line, stored below zero, after a row of a "+" line
C12_Witness ==
    /\ Len(rows) = 2
    /\ rows[1].Sinal = "+" /\ rows[1].Valor = 358350000
    /\ rows[2].Sinal = "-" /\ rows[2].Valor = -9999

\* C13: canonical_categoria returns the result of the first rule that
\* matches, in this order: the Folha synonyms or "folha" with
\* "complementar", the Rescisao synonyms or "rescisao" with "complementar",
\* the alias dictionary, a "/" segment with "folha", a "/" segment with
\* "rescisao", the title-cased label, and "Sem Categoria" for an empty
\* label; "Folha / Complementar" gives "Folha".
C13_FirstMatchingRule ==
    Returned("canonical_categoria") =>
        LET raw  == call.raw
            base == normalize_text(raw)
            has(k) == Contains(base, k)
            segs == {Strip(p) : p \in Range(SplitOn(raw, "/"))} \ {<<>>}
            seg_has(k) == /\ Contains(raw, <<"/">>)
                          /\ \E p \in segs : Contains(normalize_text(p), k)
            r_folha    == base \in folha_synonyms \/ (has(k_folha) /\ has(k_complementar))
            r_rescisao == base \in rescisao_synonyms
                          \/ (has(k_rescisao) /\ has(k_complementar))
            r_alias    == \E i \in DOMAIN aliases : aliases[i][1] = base
            r_empty    == Strip(raw) = <<>>
            earlier4   == r_folha \/ r_rescisao \/ r_alias \/ seg_has(k_folha)
        IN  /\ r_folha => ret.value = Folha
            /\ ~r_folha /\ r_rescisao => ret.value = Rescisao
            /\ ~r_folha /\ ~r_rescisao /\ r_alias =>
                   \E i \in DOMAIN aliases : aliases[i][1] = base /\ ret.value = aliases[i][2]
            /\ ~r_folha /\ ~r_rescisao /\ ~r_alias /\ seg_has(k_folha) => ret.value = Folha
            /\ ~earlier4 /\ seg_has(k_rescisao) => ret.value = Rescisao
            /\ ~earlier4 /\ ~seg_has(k_rescisao) /\ ~r_empty => ret.value = Title(Strip(raw))
            /\ ~earlier4 /\ ~seg_has(k_rescisao) /\ r_empty => ret.value = SemCategoria
            /\ raw = <<"F","o","l","h","a"," ","/"," ","C","o","m","p","l","e","m","e","n","t","a","r">>
                   => ret.value = Folha

\* a label with "folha", "rescisao" and "complementar" returned as Folha, the
\* first rule winning over the second
C13_Witness ==
    /\ Returned("canonical_categoria")
    /\ Contains(normalize_text(call.raw), k_folha)
    /\ Contains(normalize_text(call.raw), k_rescisao)
    /\ Contains(normalize_text(call.raw), k_complementar)
    /\ ret.value = Folha

\* C14: each ledger extractor emits no row for a line whose amount is
\* missing or not a number nor for a line whose ledger code has fewer than 4
\* digits, and exactly one row for every other line of at least 4 fields.
C14_LedgerLinesFiltered ==
    Returned("parse_txt_codes_values") \/ Returned("parse_txt_lancamentos") =>
        LET numeric(s) == s # <<>> /\ parse_brl_decimal(s).ok
            kept(l) == /\ Len(l) >= 4
                       /\ numeric(field(l, 3))
                       /\ Len(DigitsOf(field(l, 1))) >= 4
            expected == SelectSeq(call.reader, kept)
        IN  /\ Len(ret.value) = Len(expected)
            /\ \A i \in DOMAIN expected : ret.value[i].CodigoLA = field(expected[i], 1)

\* C15: on a configuration resource that is missing, unreadable, no valid
\* JSON or valid JSON of another shape, load_mapping and load_mapeamento of
\* processar_resumos_modernos.py raise nothing and return the empty mapping.
C15_LoadersDegradeToEmpty ==
    Returned("load_mapping") \/ Returned("load_mapeamento") =>
        /\ "raised" \notin DOMAIN ret
        /\ call.resource.kind # "json" => ret.value = <<>>

\* C16: for each category with an event that has a ledger code,
\* calcular_liquidos_por_categoria returns one row whose Total_Adicionais is
\* the sum of Total over the category's events with a ledger code and type
\* Adicional, whose Total_Descontos is that sum for type Desconto and whose
\* Liquido is the first minus the second; events without ledger code count
\* in none of them.
C16_LiquidoIsAdicionaisMinusDescontos ==
    Returned("calcular_liquidos_por_categoria") =>
        LET df == call.df_eventos_mapeados
            mapped(cat, tipo) == {i \in DOMAIN df : /\ df[i].Categoria = cat
                                                    /\ df[i].CodigoLA # NaN
                                                    /\ df[i].Tipo = tipo}
            RECURSIVE sum(_)
            sum(I) == IF I = {} THEN 0
                      ELSE LET i == CHOOSE i \in I : TRUE IN df[i].Total + sum(I \ {i})
        IN  \A k \in DOMAIN df :
                df[k].CodigoLA # NaN =>
                    LET cat == df[k].Categoria
                        out == SelectSeq(ret.value, LAMBDA r : r.Categoria = cat)
                    IN  /\ Len(out) = 1
                        /\ out[1].Total_Adicionais = sum(mapped(cat, Adicional))
                        /\ out[1].Total_Descontos = sum(mapped(cat, Desconto))
                        /\ out[1].Liquido = out[1].Total_Adicionais - out[1].Total_Descontos

\* a category with an addition, a deduction and, in the same table, an
\* event without ledger code
C16_Witness ==
    /\ Returned("calcular_liquidos_por_categoria")
    /\ \E r \in Range(ret.value) :
           r.Total_Adicionais > 0 /\ r.Total_Descontos > 0
           /\ r.Liquido = r.Total_Adicionais - r.Total_Descontos

\* a table whose only event has no ledger code gives no row
C16_WitnessUnmapped ==
    /\ Returned("calcular_liquidos_por_categoria")
    /\ call.df_eventos_mapeados # <<>>
    /\ \A r \in Range(call.df_eventos_mapeados) : r.CodigoLA = NaN
    /\ ret.value = <<>>

\* C17: get_event_type_from_mapping returns Desconto exactly when the
\* category is in the mapping and the first entry of the category whose
\* event is the code padded with zeros to 3 digits has a type that
\* normalizes to "desconto" or "descontos"; otherwise it returns Adicional.
C17_DescontoIffFirstEntrySaysSo ==
    Returned("get_event_type_from_mapping") =>
        LET m      == call.mapeamento
            padded == zfill3(call.codigo_evento)
            keys   == {i \in DOMAIN m : m[i][1] = call.categoria}
            items  == IF keys = {} THEN <<>> ELSE m[CHOOSE i \in keys : TRUE][2]
            hits   == {j \in DOMAIN items :
                          "evento" \in DOMAIN items[j] /\ items[j].evento = padded}
            first  == CHOOSE j \in hits : \A h \in hits : j <= h
            says_desconto ==
                /\ hits # {}
                /\ "tipo" \in DOMAIN items[first]
                /\ normalize_text(items[first].tipo) \in {k_desconto, k_descontos}
        IN  /\ ret.value \in {Adicional, Desconto}
            /\ ret.value = Desconto <=> says_desconto

\* an event with two entries, the first an addition and the second a
\* deduction, returned as Adicional; and a code padded to reach its entry
C17_Witness ==
    /\ Returned("get_event_type_from_mapping")
    /\ call.mapeamento = DataB /\ call.categoria = RawFERIAS
    /\ call.codigo_evento = <<"9">>
    /\ ret.value = Adicional

\* a type written " DESCONTOS " returned as Desconto
C17_WitnessDesconto ==
    /\ Returned("get_event_type_from_mapping")
    /\ call.mapeamento = DataC /\ call.codigo_evento = <<"1","0">>
    /\ ret.value = Desconto

\* C18: for each documented event line, "+ 009 Férias 358,35 1",
\* "001 Salário Base 1.791,51 0,00 0,00 1.791,51" (total last) and
\* "009 Férias 358,35 1", extrair_eventos_resumo_simples emits one event with
\* the 3-digit code of the line and the amount of the line as Total (358.35,
\* 1791.51, 358.35), never the headcount.
C18_DocumentedFormatsGiveAmount ==
    Returned("extrair_eventos_resumo_simples") /\ Len(call.linhas) = 1 =>
        LET linha == call.linhas[1]
            emits(codigo, total) ==
                /\ Len(ret.value) = 1
                /\ ret.value[1].Codigo = codigo
                /\ ret.value[1].Total = total
        IN  /\ linha = LinhaComPrefixo => emits(E009, 358350000)
            /\ linha = LinhaMultiplosValores => emits(E001, 1791510000)
            /\ linha = LinhaSemPrefixo => emits(E009, 358350000)

\* C19: the report of composition_report_by_la has no row for a ledger code
\* of the denylist, 30051, 30059, 50026, 70015, 30072, 30073, nor for a
\* ledger code listed under Folha Socios in the mapping.
C19_DenylistedCodesAbsent ==
    Returned("composition_report_by_la") =>
        LET socios == {i \in DOMAIN call.mapping : call.mapping[i][1] = FolhaSocios}
            listed == UNION {{it.codigo_lancamento : it \in Range(call.mapping[i][2])} :
                               i \in socios}
        IN  \A r \in Range(ret.value) :
                /\ r.CodigoLA \notin {LA30051, <<"3","0","0","5","9">>,
                                       <<"5","0","0","2","6">>, <<"7","0","0","1","5">>,
                                       LA30072, <<"3","0","0","7","3">>}
                /\ r.CodigoLA \notin listed

\* a report with a row, made from a summary and a ledger that hold a code of
\* the fixed denylist and a code of Folha Socios
C19_Witness ==
    /\ Returned("composition_report_by_la")
    /\ ret.value # <<>>
    /\ \E r \in Range(call.df_txt) : r.CodigoLA = LA30072
    /\ \E r \in Range(call.df_txt) : r.CodigoLA = LA40001
    /\ \E r \in Range(call.df_pdf_events) : r.Categoria = FolhaSocios
    /\ LA40001 \in Range(extract_folha_socios_codes(call.mapping))

\* C20: in confrontar_fgts a ledger posting whose code is one of the loan
\* codes 30074, 30075, 40045, 50035, 70044, 70045 adds nothing to
\* FGTS_TXT_Adicionais, FGTS_TXT_Descontos or FGTS_TXT_Total, even when the
\* mapping lists the code under FGTS: the three totals are the ones of the
\* postings that are not loans.  calcular_emprestimos_fgts counts every
\* loan posting, and nothing else, in its additions or its deductions.
C20_LoanPostingsKeptApart ==
    LET loan(row) == normalizar_codigo_la(row.CodigoLA) \in Range(codigos_emprestimo)
        abs_sum(df) == SeqSum(MapRows(df, LAMBDA row : Abs(row.Valor)))
    IN  /\ (Returned("confrontar_fgts") /\ ret.value.raised = "none") =>
            LET codigos == DictGet(call.mapeamento, FGTS, <<>>)
                listed(row, tipo) ==
                    \E i \in DOMAIN codigos :
                        /\ codigos[i].tipo = tipo
                        /\ IntStr(codigos[i].codigo_lancamento)
                              = normalizar_codigo_la(row.CodigoLA)
                others == SelectSeq(call.df_lancamentos, LAMBDA row : ~loan(row))
                adicionais == abs_sum(SelectSeq(others,
                                  LAMBDA row : listed(row, Adicional)))
                descontos  == abs_sum(SelectSeq(others,
                                  LAMBDA row : /\ listed(row, Desconto)
                                               /\ ~listed(row, Adicional)))
            IN  /\ ret.value.FGTS_TXT_Adicionais = adicionais
                /\ ret.value.FGTS_TXT_Descontos = descontos
                /\ ret.value.FGTS_TXT_Total = adicionais - descontos
        /\ Returned("calcular_emprestimos_fgts") =>
            ret.value.Emprestimos_Adicionais + ret.value.Emprestimos_Descontos
                = abs_sum(SelectSeq(call.df_lancamentos, loan))

\* a ledger with a loan posting and a FGTS posting, under a mapping that
\* lists both codes under FGTS: only the FGTS posting is in the totals
C20_Witness ==
    /\ Returned("confrontar_fgts")
    /\ call.mapeamento = DataF
    /\ \E i, j \in DOMAIN call.df_lancamentos :
           /\ call.df_lancamentos[i].CodigoLA \in {LA30074, LA030075}
           /\ call.df_lancamentos[j].CodigoLA = LA30051
           /\ ret.value.FGTS_TXT_Adicionais = Abs(call.df_lancamentos[j].Valor)
    /\ ret.value.FGTS_TXT_Total > 0

\* the same loan postings are counted by calcular_emprestimos_fgts
C20_WitnessEmprestimos ==
    /\ Returned("calcular_emprestimos_fgts")
    /\ \E i, j \in DOMAIN call.df_lancamentos :
           /\ call.df_lancamentos[i].CodigoLA = LA030075
           /\ call.df_lancamentos[j].CodigoLA = LA30051
    /\ ret.value.Emprestimos_Adicionais > 0
    /\ ret.value.Emprestimos_Total = ret.value.Emprestimos_Adicionais

----------------------------------------------------------------------------
(* parse_pdf_events over the lines read so far                             *)

\* the line is taken as a category title
TitleLine(line) == is_category_title(line)

\* the line is taken as a header
HeaderLine(line) == ~is_category_title(line) /\ find_header_centers(line)

\* the position of the last header in hist, 0 when there is none
LastHeader(hist) ==
    LET H == {i \in DOMAIN hist : HeaderLine(hist[i])}
    IN  IF H = {} THEN 0 ELSE CHOOSE i \in H : \A j \in H : j <= i

\* the position of the last title in hist before position h, 0 when there is none
LastTitleBefore(hist, h) ==
    LET T == {i \in DOMAIN hist : i < h /\ TitleLine(hist[i])}
    IN  IF T = {} THEN 0 ELSE CHOOSE i \in T : \A j \in T : j <= i

\* the step emits a row
EmitsRow == Len(rows') = Len(rows) + 1

\* C21: every row emitted by parse_pdf_events carries the canonical form of
\* the most recent category-title line before the header that opened the
\* row's data block, or "Sem Categoria" when no title precedes that header;
\* pages make no difference: the lines read are taken one after the other
\* whatever page they are on.
C21_RowCategoryFromLastTitle ==
    [][EmitsRow =>
        LET h == LastHeader(lines_read)
            t == LastTitleBefore(lines_read, h)
        IN  /\ h # 0
            /\ rows'[Len(rows')].Categoria =
                  IF t = 0 THEN SemCategoria
                  ELSE canonical_categoria(lines_read[t].text)]_vars

\* a title and a header on one page, an event line on the next: the row has
\* the category of the title
C21_Witness ==
    /\ Len(lines_read) = 4
    /\ TitleLine(lines_read[1])
    /\ HeaderLine(lines_read[2])
    /\ lines_read[3] = PageBreak
    /\ Len(rows) = 1
    /\ rows[1].Categoria = canonical_categoria(lines_read[1].text)
    /\ rows[1].Categoria = Ferias

\* a line that gets as far as the columns: no title, no header, no page break
DataLine(line) == line # PageBreak /\ ~TitleLine(line) /\ ~HeaderLine(line)

\* the code column of the line has no digit
NoCodigoDigits(line) == codigo_digits_of(Strip(line.codigo)) = <<>>

\* C22: once a line with a block-terminator keyword (totais, base inss, base
\* irrf, base fgts, liquidos) has been read inside a data block, or a data
\* line whose code column has no digit, no row is emitted for any following
\* line until a header line is recognized again: a step that emits a row has
\* no such line after the last header read.
C22_NoRowAfterTerminator ==
    [][EmitsRow =>
        LET h == LastHeader(lines_read)
        IN  \A i \in DOMAIN lines_read :
                (i > h /\ DataLine(lines_read[i])) =>
                    /\ ~is_footer(lines_read[i])
                    /\ ~NoCodigoDigits(lines_read[i])]_vars

\* the same with the lines that have an amount: a row is emitted only when
\* no line after the last header has a terminator keyword, or an amount and
\* no digit in the code column
C22_NoRowAfterTerminatorWithAmount ==
    [][EmitsRow =>
        LET h == LastHeader(lines_read)
        IN  \A i \in DOMAIN lines_read :
                (i > h /\ DataLine(lines_read[i])) =>
                    /\ ~is_footer(lines_read[i])
                    /\ ~(NoCodigoDigits(lines_read[i])
                         /\ Strip(lines_read[i].valor) # <<>>)]_vars

\* after a header and a terminator, an event line that would give a row is
\* read and gives none
C22_WitnessBlockClosed ==
    /\ Len(lines_read) >= 3
    /\ HeaderLine(lines_read[1])
    /\ DataLine(lines_read[2])
    /\ is_footer(lines_read[2]) \/ (NoCodigoDigits(lines_read[2])
                                    /\ Strip(lines_read[2].valor) # <<>>)
    /\ ~NoCodigoDigits(lines_read[3])
    /\ parse_brl_decimal(valor_token_of(Strip(lines_read[3].valor))).ok
    /\ rows = <<>>
    /\ ~in_block

\* the line has digits under the code header and something under the amount header
HasCodigoAndValor(line) ==
    DataLine(line) /\ ~is_footer(line) /\ ~NoCodigoDigits(line) /\ Strip(line.valor) # <<>>

\* the amount token of the line is a number in the regional notation: an
\* optional sign, digits with "." between them, at most one "," and a digit
AmountParses(line) ==
    LET token  == RemoveAll(Strip(valor_token_of(Strip(line.valor))), <<".">>)
        body   == IF token # <<>> /\ Head(token) \in {"+", "-"} THEN Tail(token) ELSE token
        commas == {i \in DOMAIN body : body[i] = ","}
    IN  /\ \A i \in DOMAIN body : IsDigit(body[i]) \/ body[i] = ","
        /\ Cardinality(commas) <= 1
        /\ \E i \in DOMAIN body : IsDigit(body[i])

\* a line with code digits whose amount token is no number
BadAmountLine(line) == HasCodigoAndValor(line) /\ ~AmountParses(line)

\* the lines of the inputs with code digits and an amount that is no number,
\* and those with code digits and an amount that is one
BadAmountLines == {line \in PdfLines : BadAmountLine(line)}

WellFormedLines == {line \in PdfLines : HasCodigoAndValor(line) /\ AmountParses(line)}

\* the line the step reads
LineRead == lines_read'[Len(lines_read')]

\* C23: a data line inside a block whose code column has digits but whose
\* amount token cannot be parsed emits no row and leaves current category,
\* pending category, column centers and in-block flag as they were; a
\* well-formed line read in a block in which only such lines came after the
\* header is emitted.
C23_BadAmountLineSkipped ==
    [][/\ (centers /\ in_block /\ LineRead \in BadAmountLines) =>
              UNCHANGED <<current_cat, pending_cat, centers, in_block, rows>>
       /\ (/\ LineRead \in WellFormedLines
           /\ LET h == LastHeader(lines_read)
              IN  /\ h # 0
                  /\ h < Len(lines_read)
                  /\ \A i \in DOMAIN lines_read : i > h => lines_read[i] \in BadAmountLines)
              => EmitsRow]_vars

\* a header, a line with the amount "abc" and an event line: one row, of the
\* event line
C23_Witness ==
    /\ Len(lines_read) = 3
    /\ HeaderLine(lines_read[1])
    /\ BadAmountLine(lines_read[2])
    /\ HasCodigoAndValor(lines_read[3]) /\ AmountParses(lines_read[3])
    /\ Len(rows) = 1
    /\ rows[1].EventoCod = codigo_digits_of(Strip(lines_read[3].codigo))
    /\ centers /\ in_block

\* the text has a digit
HasDigit(text) == \E i \in DOMAIN text : IsDigit(text[i])

\* the line has one of the category keywords, as written or without accents
HasCategoryKeyword(line) ==
    \E tok \in category_tokens :
        Contains(Lower(line.text), tok) \/ Contains(normalize_text(line.text), tok)

\* a category title as described: a short text without digits with a "/" or
\* a category keyword
DescribedTitle(line) ==
    LET norm_line == normalize_text(line.text)
    IN  /\ norm_line # <<>>
        /\ Len(norm_line) <= MaxTitleLen
        /\ ~HasDigit(norm_line)
        /\ Contains(line.text, <<"/">>) \/ HasCategoryKeyword(line)

\* C24: parse_pdf_events treats a line as a category title exactly when its
\* normalized text is non-empty, at most 80 characters long, has no digit,
\* and the line has a "/" or one of the category keywords.  Such a line sets
\* the pending category, clears the column centers and the in-block flag and
\* emits no row; any other line leaves the pending category or clears it;
\* a line with a digit changes neither the pending nor the current category.
C24_TitleExactlyAsDescribed ==
    [][LineRead # PageBreak =>
        /\ DescribedTitle(LineRead) =>
              /\ pending_cat' = canonical_categoria(LineRead.text)
              /\ ~centers' /\ ~in_block'
              /\ rows' = rows
        /\ ~DescribedTitle(LineRead) => pending_cat' \in {pending_cat, None}
        /\ HasDigit(LineRead.text) =>
              UNCHANGED <<pending_cat, current_cat>>]_vars

\* C25: after parse_pdf_events has processed any sequence of lines, the
\* column centers are set if and only if the in-block flag is true, and
\* whenever the in-block flag is true there is no pending category.
C25_CentersIffInBlock ==
    /\ centers <=> in_block
    /\ in_block => pending_cat = None

\* inside a block that a header opened after a title, and then closed by a
\* second title that is pending
C25_Witness ==
    /\ Len(lines_read) = 3
    /\ TitleLine(lines_read[1]) /\ HeaderLine(lines_read[2]) /\ TitleLine(lines_read[3])
    /\ current_cat = canonical_categoria(lines_read[1].text)
    /\ pending_cat = canonical_categoria(lines_read[3].text)
    /\ pending_cat # current_cat
    /\ ~centers /\ ~in_block

\* a block is open: centers set, flag true, nothing pending
C25_WitnessInBlock ==
    /\ Len(lines_read) = 2
    /\ TitleLine(lines_read[1]) /\ HeaderLine(lines_read[2])
    /\ centers /\ in_block /\ pending_cat = None

\* C26: load_mapping keeps every configuration entry that has a usable event
\* code or a usable ledger code, drops only the entries with neither, and
\* files each kept entry under the canonical name of its category, also when
\* two raw category names of the configuration have the same canonical name.
C26_EveryUsableEntryKept ==
    (Returned("load_mapping") /\ "value" \in DOMAIN ret /\ call.resource.kind = "json") =>
        LET data == call.resource.data
            evento_of(it) == DigitsOf(StrOf(ItemGet(it, "evento", <<>>)))
            la_of(it) == RemoveAll(Strip(StrOf(ItemGet(it, "codigo_lancamento", <<>>))),
                                   <<".", "0">>)
            usable(it) == evento_of(it) # <<>> \/ la_of(it) # <<>>
            entry(it) == [evento |-> evento_of(it), codigo_lancamento |-> la_of(it)]
            filed(cat) == DictGet(ret.value, cat, <<>>)
        IN  /\ \A c \in DOMAIN data : \A k \in DOMAIN data[c][2] :
                usable(data[c][2][k]) =>
                    entry(data[c][2][k]) \in Range(filed(canonical_categoria(data[c][1])))
            /\ \A m \in DOMAIN ret.value : \A e \in Range(ret.value[m][2]) :
                \E c \in DOMAIN data : \E k \in DOMAIN data[c][2] :
                    /\ usable(data[c][2][k])
                    /\ e = entry(data[c][2][k])
                    /\ ret.value[m][1] = canonical_categoria(data[c][1])

\* C27: in the event-level report of compare_by_event the total of a ledger
\* code is attributed to at most one report row, so the sum of ValorTXT over
\* the report rows is never more than the sum of the ledger amounts, also
\* when several events of one category map to the same ledger code.
C27_LedgerTotalAttributedOnce ==
    AfterByEvent =>
        LET report == report_ev[1]
        IN  /\ \A i, j \in DOMAIN report :
                (/\ report[i].CodigoLA # NaN
                 /\ report[i].CodigoLA = report[j].CodigoLA
                 /\ report[i].ValorTXT # 0 /\ report[j].ValorTXT # 0) => i = j
            /\ SeqSum(MapRows(report, LAMBDA r : r.ValorTXT))
                  <= SeqSum(MapRows(df_txt, LAMBDA r : r.Valor))

\* C28: in extract_socios_autonomos_resumo_geral, once the end-of-section
\* line ("total de socios") of the partners' section has been read, no later
\* line of the document changes the gross or INSS values of pro-labore and
\* autonomos: the values returned are the ones of the lines up to that line.
C28_ValuesFixedAfterSectionEnd ==
    Returned("extract_socios_autonomos_resumo_geral") =>
        LET lines == call.lines
            ends == {i \in DOMAIN lines :
                        /\ socios_after(SubSeq(lines, 1, i - 1)).in_socios_section
                        /\ Contains(normalize_text(lines[i]),
                                    <<"t","o","t","a","l"," ","d","e"," ","s","o","c","i","o","s">>)}
        IN  \A i \in ends :
                LET upto == extract_socios_autonomos_resumo_geral(SubSeq(lines, 1, i))
                IN  /\ ret.value.pro_labore_bruto = upto.pro_labore_bruto
                    /\ ret.value.pro_labore_inss = upto.pro_labore_inss
                    /\ ret.value.autonomos_bruto = upto.autonomos_bruto
                    /\ ret.value.autonomos_inss = upto.autonomos_inss


\* C29: on the screen of the composition report the counter of divergent
\* ledger codes is the number of rows whose Status is DIVERGENTE and the
\* counter of OK codes is the number of rows whose Status is OK, whatever the
\* differences are, a difference of exactly 0.01 included.
C29_CountersMatchStatus ==
    (pc = "shown" /\ ret.fn = "report_comp_display") =>
        /\ ret.total_divergencias_la =
               Len(SelectSeq(ret.value, LAMBDA r : r.Status = StatusDivergente))
        /\ ret.total_ok_la =
               Len(SelectSeq(ret.value, LAMBDA r : r.Status = StatusOK))

\* the same, for the reports in which no difference is exactly 0.01
C29_CountersMatchStatusOffTolerance ==
    (/\ pc = "shown" /\ ret.fn = "report_comp_display"
     /\ \A i \in DOMAIN ret.value : Abs(ret.value[i].Diferenca) # Tolerance) =>
        /\ ret.total_divergencias_la =
               Len(SelectSeq(ret.value, LAMBDA r : r.Status = StatusDivergente)) + 0
        /\ ret.total_ok_la =
               Len(SelectSeq(ret.value, LAMBDA r : r.Status = StatusOK)) + 0

\* a report with a difference of exactly 0.01 is on the screen
C29_WitnessAtTolerance ==
    /\ pc = "shown" /\ ret.fn = "report_comp_display"
    /\ \E i \in DOMAIN ret.value : Abs(ret.value[i].Diferenca) = Tolerance


\* the ledger code of a posting as realizar_confronto compares it with the
\* codes it leaves out
C30_Normalized(la) ==
    LET x == Strip(RemoveAll(StrOf(la), <<".", "0">>))
    IN  IF x # <<>> /\ \A i \in DOMAIN x : IsDigit(x[i]) THEN IntStr(x) ELSE x

\* the postings whose code realizar_confronto does not leave out
C30_KeptPostings ==
    SelectSeq(df_lancamentos,
              LAMBDA r : C30_Normalized(r.CodigoLA)
                         \notin codigos_excluir_inss \cup codigos_excluir_fgts)

\* C30: in the report of realizar_confronto the ledger total of a ledger
\* code is compared in exactly one row: no two rows have the same ledger
\* code, and the Total_TXT of the rows add up to the amounts of the postings
\* whose code is not left out, also when events of two categories have the
\* same ledger code.
C30_LedgerTotalInOneRow ==
    (pc = "r_done" /\ df_eventos_mapeados # <<>>) =>
        /\ \A i, j \in DOMAIN df_confronto :
              df_confronto[i].CodigoLA = df_confronto[j].CodigoLA => i = j
        /\ SeqSum(MapRows(df_confronto, LAMBDA r : r.Total_TXT))
              = SeqSum(MapRows(C30_KeptPostings, LAMBDA r : r.Valor))

\* the same, for the reports in which every ledger code comes from the events
\* of one category
C30_LedgerTotalInOneRowOneCategory ==
    (/\ pc = "r_done" /\ df_eventos_mapeados # <<>>
     /\ \A a, b \in Range(df_eventos_mapeados) :
           (a.CodigoLA # NaN /\ a.CodigoLA = b.CodigoLA) => a.Categoria = b.Categoria) =>
        /\ \A i, j \in DOMAIN df_confronto :
              df_confronto[i].CodigoLA = df_confronto[j].CodigoLA => i = j
        /\ SeqSum(MapRows(df_confronto, LAMBDA r : r.Total_TXT))
              = SeqSum(MapRows(C30_KeptPostings, LAMBDA r : r.Valor)) + 0

\* a report with two rows of one ledger code, from two categories
C30_WitnessTwoCategories ==
    /\ pc = "r_done"
    /\ \E i, j \in DOMAIN df_confronto :
          /\ i # j
          /\ df_confronto[i].CodigoLA = df_confronto[j].CodigoLA
          /\ df_confronto[i].Categoria # df_confronto[j].Categoria
          /\ df_confronto[i].Total_TXT # 0

====
